---------------------------- MODULE Spec2Model ----------------------------
(***************************************************************************)
(* A model of the CelestialSynth DSP core (CelestialSynth_DSP.h/.cpp):     *)
(* the fixed voice pool of CelestialSynthDSP, the MIDI handler that claims *)
(* and releases voices, the ADSR envelope of every voice and the part of   *)
(* ProcessBlock that drives the envelopes of the busy voices.              *)
(*                                                                         *)
(* Numbers the code holds in a double are exact rationals <<n, d>> in      *)
(* lowest terms with d > 0, so 0.001, 0.7 or 261.6256 are the values the   *)
(* source writes.  The signal values themselves (what the oscillators and  *)
(* the filters put out, the integrator of the triangle wave) are not part  *)
(* of the state below: they are read by nothing but the output samples,    *)
(* and reach the model as the sample the voices hand to the effects.       *)
(***************************************************************************)
EXTENDS Integers, Sequences, FiniteSets, TLC

VARIABLES
  mVoices,       \* mVoices[0..kMaxVoices-1]: the voice records
  mVoiceCount,   \* CelestialSynthDSP::mVoiceCount
  mSampleRate,   \* CelestialSynthDSP::mSampleRate (every voice holds the same)
  mAttack,       \* ms
  mDecay,        \* ms
  mSustain,      \* level, a rational
  mRelease,      \* ms
  mWaveform,     \* CelestialSynthDSP::mWaveform
  mScale,        \* PentatonicScaleSystem::mCurrentScale
  mTimbreShift,  \* CelestialSynthDSP::mTimbreShift, in hundredths
  mWarmth,       \* CelestialSynthDSP::mWarmth, a rational
  mFilterCutoff, \* CelestialSynthDSP::mFilterCutoff, Hz, an integer
  mFilterResonance, \* CelestialSynthDSP::mFilterResonance, a rational
  mLFO1,         \* CelestialSynthDSP::mLFO1, an LFO record
  mLFO2,         \* CelestialSynthDSP::mLFO2, an LFO record
  mDelayTime,    \* ms, an integer
  mDelayFeedback,\* a rational
  mDelayMix,     \* a rational
  mDelayBufferL, \* mDelayBufferL[0..kMaxDelayBufferSize-1], rationals
  mDelayBufferR, \* mDelayBufferR[0..kMaxDelayBufferSize-1], rationals
  mDelayWritePos,\* CelestialSynthDSP::mDelayWritePos
  mReverbMix,    \* a rational
  mReverbL,      \* CelestialSynthDSP::mReverbL, a SimpleReverb record
  mReverbR,      \* CelestialSynthDSP::mReverbR, a SimpleReverb record
  randState,     \* the state of the C library's rand(), one per process
  mModSlots,     \* mModSlots[0..kNumModSlots-1]: [source, dest, depth, enabled]
  mModWheelValue,\* CelestialSynthDSP::mModWheelValue, a rational
  probe,         \* what the last ProcessBlock computed, when probe.on
  last,          \* the call made last: [op, note, arg, voice]
  scn,           \* progress of the run "one voice: note-on 60, note-on 64, note-off 64"
  drain          \* [on, rel]: from some point on the host only calls ProcessBlock

vars == <<mVoices, mVoiceCount, mSampleRate, mAttack, mDecay, mSustain, mRelease,
          mWaveform, mScale, mTimbreShift, mWarmth, mFilterCutoff,
          mFilterResonance, mLFO1, mLFO2, mDelayTime,
          mDelayFeedback, mDelayMix, mDelayBufferL, mDelayBufferR, mDelayWritePos,
          mReverbMix, mReverbL, mReverbR, randState,
          mModSlots, mModWheelValue, probe, last, scn, drain>>

engine == <<mVoiceCount, mSampleRate, mAttack, mDecay, mSustain, mRelease,
            mWaveform, mScale, mTimbreShift, mWarmth, mFilterCutoff,
            mFilterResonance>>

\* The LFOs, the delay line and the modulation table.
lfos == <<mLFO1, mLFO2>>
delay == <<mDelayTime, mDelayFeedback, mDelayMix, mDelayBufferL, mDelayBufferR,
           mDelayWritePos>>
reverb == <<mReverbMix, mReverbL, mReverbR>>
modulation == <<mModSlots, mModWheelValue>>

---------------------------------------------------------------------------
(* Bounds of the model *)

\* The capacity of the voice array; the program's kMaxVoices is 16
\* (CelestialSynth_DSP.h:597), scaled down here.
kMaxVoices == 2

\* ProcessBlock is called with nFrames in 0..MaxFrames.
MaxFrames == 2

\* The length of a delay buffer; the program's kMaxDelayBufferSize is 88200
\* (CelestialSynth_DSP.h:625), scaled down here.
kMaxDelayBufferSize == 1

\* The most blocks a run of the delay line processes.
MaxBlocks == 3

VoiceIdx == 0 .. (kMaxVoices - 1)

---------------------------------------------------------------------------
(* Exact arithmetic for the code's doubles *)

Abs(x) == IF x < 0 THEN -x ELSE x

Gcd[a \in Nat, b \in Nat] == IF b = 0 THEN a ELSE Gcd[b, a % b]

\* The fraction n/d in lowest terms with a positive denominator.
Rat(n, d) ==
  LET Reduce[x \in Int, y \in Int] ==
        LET g == Gcd[Abs(x), Abs(y)]
            s == IF y < 0 THEN -1 ELSE 1
        IN  <<(s * x) \div g, (s * y) \div g>>
  IN  Reduce[n, d]

Q == Int \X Int

RInt(n) == <<n, 1>>
RAdd(a, b) ==
  LET Sum[x \in Q, y \in Q] ==
        LET g == Gcd[x[2], y[2]]
        IN  Rat(x[1] * (y[2] \div g) + y[1] * (x[2] \div g), (x[2] \div g) * y[2])
  IN  Sum[a, b]
RSub(a, b) ==
  LET Diff[x \in Q, y \in Q] ==
        LET g == Gcd[x[2], y[2]]
        IN  Rat(x[1] * (y[2] \div g) - y[1] * (x[2] \div g), (x[2] \div g) * y[2])
  IN  Diff[a, b]
RMul(a, b) ==
  LET Cross[x \in Q, y \in Q] == Rat(x[1] * y[1], x[2] * y[2])
      Prod[x \in Q, y \in Q] == Cross[Rat(x[1], y[2]), Rat(y[1], x[2])]
  IN  Prod[a, b]
RDiv(a, b) ==
  LET Quot[x \in Q, y \in Q] == RMul(x, Rat(y[2], y[1]))
  IN  Quot[a, b]
RLe(a, b) ==
  LET Le[x \in Q, y \in Q] ==
        LET g == Gcd[x[2], y[2]]
        IN  x[1] * (y[2] \div g) <= y[1] * (x[2] \div g)
  IN  Le[a, b]
RLt(a, b) ==
  LET Lt[x \in Q, y \in Q] ==
        LET g == Gcd[x[2], y[2]]
        IN  x[1] * (y[2] \div g) < y[1] * (x[2] \div g)
  IN  Lt[a, b]

RMin(a, b) == IF RLe(a, b) THEN a ELSE b
RMax(a, b) == IF RLe(a, b) THEN b ELSE a

\* A double too wide for a quotient of two machine integers, as m * 2^e: the
\* rational m has an odd numerator and an odd denominator, or is 0 with e = 0.
RECURSIVE Ldexp(_, _)
Ldexp(m, e) ==
  IF m[1] = 0 THEN [m |-> <<0, 1>>, e |-> 0]
  ELSE IF m[1] % 2 = 0 THEN Ldexp(<<m[1] \div 2, m[2]>>, e + 1)
  ELSE IF m[2] % 2 = 0 THEN Ldexp(<<m[1], m[2] \div 2>>, e - 1)
  ELSE [m |-> m, e |-> e]

\* The product of two such doubles.
FMul(a, b) == Ldexp(RMul(a.m, b.m), a.e + b.e)

RECURSIVE Pow2(_)
Pow2(n) == IF n <= 0 THEN 1 ELSE 2 * Pow2(n - 1)

\* The value of m * 2^e, where it fits.
LdexpValue(x) ==
  IF x.e >= 0 THEN RMul(x.m, <<Pow2(x.e), 1>>) ELSE RMul(x.m, <<1, Pow2(-x.e)>>)

---------------------------------------------------------------------------
(* PentatonicScaleSystem *)

kNumScales == 9

mScaleRatios ==
  << << <<1,1>>, <<9,8>>, <<5,4>>,   <<3,2>>, <<27,16>> >>,
     << <<1,1>>, <<9,8>>, <<81,64>>, <<3,2>>, <<27,16>> >>,
     << <<1,1>>, <<9,8>>, <<4,3>>,   <<3,2>>, <<5,3>> >>,
     << <<1,1>>, <<9,8>>, <<32,27>>, <<3,2>>, <<27,16>> >>,
     << <<1,1>>, <<9,8>>, <<4,3>>,   <<3,2>>, <<5,3>> >>,
     << <<1,1>>, <<6,5>>, <<4,3>>,   <<3,2>>, <<9,5>> >>,
     << <<1,1>>, <<9,8>>, <<5,4>>,   <<3,2>>, <<5,3>> >>,
     << <<1,1>>, <<6,5>>, <<4,3>>,   <<3,2>>, <<9,5>> >>,
     << <<1,1>>, <<9,8>>, <<4,3>>,   <<3,2>>, <<5,3>> >> >>

mChromaticToScale == <<0, 0, 1, 1, 2, 2, 2, 3, 3, 4, 4, 4>>

\* The semitone above C of each degree of each scale, from the note names
\* the ScaleType enumerators are documented with (C-D-E-G-A and so on).
ScaleLayout ==
  << <<0, 2, 4, 7, 9>>,
     <<0, 2, 4, 7, 9>>,
     <<0, 2, 5, 7, 9>>,
     <<0, 2, 3, 7, 9>>,
     <<0, 2, 5, 7, 9>>,
     <<0, 3, 5, 7, 10>>,
     <<0, 2, 4, 7, 9>>,
     <<0, 3, 5, 7, 10>>,
     <<0, 2, 5, 7, 9>> >>

\* The mutation of GetScaleNote whose octave multiplier grows linearly.
GetScaleNoteLinearOctave(scale, noteIndex, baseFreq) ==
  LET scaleIndex == noteIndex % 5
      octave == noteIndex \div 5
      ratio == mScaleRatios[scale + 1][scaleIndex + 1]
  IN  FMul(Ldexp(RMul(baseFreq, ratio), 0), Ldexp(RInt(octave + 1), 0))

\* The mutation of GetScaleNote that takes the ratio as an offset from unison.
GetScaleNoteOffset(scale, noteIndex, baseFreq) ==
  LET scaleIndex == noteIndex % 5
      octave == noteIndex \div 5
      ratio == RSub(mScaleRatios[scale + 1][scaleIndex + 1], <<1, 1>>)
      octaveMultiplier == Ldexp(<<1, 1>>, octave)
  IN  FMul(Ldexp(RMul(baseFreq, ratio), 0), octaveMultiplier)

\* GetScaleNote(noteIndex, baseFreq) under the scale `scale`.
GetScaleNote(scale, noteIndex, baseFreq) ==
  LET scaleIndex == noteIndex % 5
      octave == noteIndex \div 5
      ratio == mScaleRatios[scale + 1][scaleIndex + 1]
      octaveMultiplier == Ldexp(<<1, 1>>, octave)
  IN  FMul(Ldexp(RMul(baseFreq, ratio), 0), octaveMultiplier)

\* The mutation of MapMidiNoteToScaleIndex that takes the degree without the
\* lookup table.
MapMidiNoteToScaleIndexNoTable(midiNote) ==
  LET noteInOctave == midiNote % 12
      octave == midiNote \div 12
  IN  (octave * 5) + (noteInOctave % 5)

MapMidiNoteToScaleIndex(midiNote) ==
  LET noteInOctave == midiNote % 12
      octave == midiNote \div 12
      scaleDegree == mChromaticToScale[noteInOctave + 1]
  IN  (octave * 5) + scaleDegree

GetFrequencyForMidiNote(scale, midiNote, baseFreq) ==
  GetScaleNote(scale, MapMidiNoteToScaleIndex(midiNote), baseFreq)

---------------------------------------------------------------------------
(* ADSREnvelope *)

\* The mutation of the threshold below to -0.001.
kReleaseFloorBelowZero == <<-1, 1000>>

\* mEnvelopeValue <= 0.001 ends the release.
kReleaseFloor == <<1, 1000>>

\* SetAttack, SetDecay, SetRelease: (ms / 1000.0) * mSampleRate.
MsToSamples(ms, sr) == RMul(Rat(ms, 1000), RInt(sr))

\* A default-constructed envelope.
EnvelopeInit ==
  [ mStage |-> "kIdle",
    mAttackSamples |-> <<441, 1>>,
    mDecaySamples |-> <<2205, 1>>,
    mSustainLevel |-> <<7, 10>>,
    mReleaseSamples |-> <<8820, 1>>,
    mEnvelopeValue |-> <<0, 1>>,
    mReleaseStart |-> <<0, 1>>,
    mSampleCount |-> 0 ]

\* The variant of EnvTrigger below that starts at the full level.
EnvTriggerAtFull(e) ==
  [e EXCEPT !.mStage = "kAttack", !.mEnvelopeValue = <<1, 1>>, !.mSampleCount = 0]

EnvTrigger(e) ==
  [e EXCEPT !.mStage = "kAttack", !.mEnvelopeValue = <<0, 1>>, !.mSampleCount = 0]

EnvReleaseWrong(e) ==
  [e EXCEPT !.mStage = "kRelease", !.mReleaseStart = <<1, 1>>, !.mSampleCount = 0]

EnvRelease(e) ==
  [e EXCEPT !.mStage = "kRelease", !.mReleaseStart = e.mEnvelopeValue,
            !.mSampleCount = 0]

\* The variant of DecayLevel below that moves away from the sustain level.
DecayLevelRising(e) ==
  RAdd(<<1, 1>>, RMul(RSub(<<1, 1>>, e.mSustainLevel),
                      RDiv(RInt(e.mSampleCount), e.mDecaySamples)))

\* The value of the decay stage for a positive length:
\* 1.0 - ((1.0 - mSustainLevel) * ((double)mSampleCount / mDecaySamples)).
DecayLevel(e) ==
  RSub(<<1, 1>>, RMul(RSub(<<1, 1>>, e.mSustainLevel),
                      RDiv(RInt(e.mSampleCount), e.mDecaySamples)))

\* One call of ADSREnvelope::Process: the envelope after it (the value it
\* returns is the new mEnvelopeValue).
EnvProcess(e) ==
  CASE e.mStage = "kAttack" ->
         LET n == e.mSampleCount + 1 IN
         IF RLe(e.mAttackSamples, RInt(n))
           THEN [e EXCEPT !.mStage = "kDecay", !.mSampleCount = 0,
                          !.mEnvelopeValue = <<1, 1>>]
           ELSE [e EXCEPT !.mSampleCount = n,
                          !.mEnvelopeValue =
                             IF RLt(<<0, 1>>, e.mAttackSamples)
                               THEN RDiv(RInt(e.mSampleCount), e.mAttackSamples)
                               ELSE <<1, 1>>]
    [] e.mStage = "kDecay" ->
         LET n == e.mSampleCount + 1 IN
         IF RLe(e.mDecaySamples, RInt(n))
           THEN [e EXCEPT !.mStage = "kSustain", !.mSampleCount = n,
                          !.mEnvelopeValue = e.mSustainLevel]
           ELSE [e EXCEPT !.mSampleCount = n,
                          !.mEnvelopeValue =
                             IF RLt(<<0, 1>>, e.mDecaySamples)
                               THEN DecayLevel(e)
                               ELSE e.mSustainLevel]
    [] e.mStage = "kSustain" ->
         [e EXCEPT !.mEnvelopeValue = e.mSustainLevel]
    [] e.mStage = "kRelease" ->
         LET val == IF RLt(<<0, 1>>, e.mReleaseSamples)
                      THEN RMul(e.mReleaseStart,
                                RSub(<<1, 1>>,
                                     RDiv(RInt(e.mSampleCount), e.mReleaseSamples)))
                      ELSE <<0, 1>>
         IN  IF RLe(val, kReleaseFloor)
               THEN [e EXCEPT !.mSampleCount = e.mSampleCount + 1,
                              !.mEnvelopeValue = <<0, 1>>, !.mStage = "kIdle"]
               ELSE [e EXCEPT !.mSampleCount = e.mSampleCount + 1,
                              !.mEnvelopeValue = val]
    [] OTHER ->
         [e EXCEPT !.mEnvelopeValue = <<0, 1>>]

EnvIsActive(e) == e.mStage # "kIdle"

\* n calls of Process in a row.
RECURSIVE EnvRun(_, _)
EnvRun(e, n) == IF n <= 0 THEN e ELSE EnvRun(EnvProcess(e), n - 1)

---------------------------------------------------------------------------
(* CelestialVoice *)

\* A default-constructed voice.
\* mPhaseIncrement is mFrequency / mSampleRate, kept as the two terms of the
\* quotient: a frequency with a timbre shift has no rational value.
PhaseIncrement(freq, sr) == [freq |-> freq, sr |-> sr]

\* The value of an increment whose frequency carries no timbre shift.
IncrementValue(inc) ==
  CASE inc.sr = 0 -> <<1, 0>>
    [] inc.sr # 0 /\ inc.freq.shift = 0 ->
         LdexpValue(FMul(inc.freq.hz, Ldexp(<<1, inc.sr>>, 0)))

\* What SimpleLowpassFilter::SetCutoff stores for the argument
\* hz * 2^octaves at the sample rate sr, kept as its terms (a power of two
\* with a fractional exponent has no rational value): the argument, limited
\* to [20, 20000] by the caller where octaves is not 0, then limited to
\* [20, sr * 0.49].
CutoffOf(hz, octaves, sr) == [hz |-> hz, octaves |-> octaves, sr |-> sr]

\* SimpleLowpassFilter as constructed: 20000 Hz, no resonance, and mLowpass,
\* mBandpass and mHighpass at 0.0.  Of the three the model keeps whether
\* they are as Reset() leaves them: mCleared holds until the next Process().
FilterInit ==
  [mCutoff |-> CutoffOf(20000, <<0, 1>>, 44100), mResonance |-> <<0, 1>>,
   mCleared |-> TRUE]

\* A voice as constructed; the increment 0.0 is that of frequency 0.
VoiceInit ==
  [ mNote |-> -1,
    mVelocity |-> 0,
    mFrequency |-> [hz |-> Ldexp(<<440, 1>>, 0), shift |-> 0],
    mPhase |-> <<0, 1>>,
    mPhaseIncrement |->
      PhaseIncrement([hz |-> Ldexp(<<0, 1>>, 0), shift |-> 0], 44100),
    mVoiceGain |-> <<0, 1>>,
    mWaveform |-> "kSine",
    mFilter |-> FilterInit,
    mEnvelope |-> EnvelopeInit ]

\* A variant of GetBusy below that takes a released voice for free.
GetBusyUntilRelease(voice) == voice.mEnvelope.mStage \notin {"kIdle", "kRelease"}

GetBusy(voice) == EnvIsActive(voice.mEnvelope)

IsPlayingNote(voice, note) == voice.mNote = note /\ GetBusy(voice)

\* Trigger(level, true): the gain and the envelope, nothing else.
VoiceRetrigger(voice, level) ==
  [voice EXCEPT !.mVoiceGain = level, !.mEnvelope = EnvTrigger(voice.mEnvelope)]

\* Trigger(level, false), the only call there is: the gain, the envelope,
\* the phase, and the filter's Reset().
VoiceTrigger(voice, level) ==
  [voice EXCEPT !.mVoiceGain = level, !.mEnvelope = EnvTrigger(voice.mEnvelope),
                !.mPhase = <<0, 1>>, !.mFilter.mCleared = TRUE]

\* CelestialVoice::SetSampleRate: the envelope takes the rate for the sample
\* counts of the next note-on, the increment is recomputed.
VoiceSetSampleRate(voice, sr) ==
  [voice EXCEPT !.mPhaseIncrement = PhaseIncrement(voice.mFrequency, sr)]

\* CelestialVoice::SetFilterCutoff and SetFilterResonance: the filter limits
\* the cutoff by the sample rate and stores the resonance as it comes.
VoiceSetFilterCutoff(voice, hz, octaves, sr) ==
  [voice EXCEPT !.mFilter.mCutoff = CutoffOf(hz, octaves, sr)]

VoiceSetFilterResonance(voice, res) ==
  [voice EXCEPT !.mFilter.mResonance = res]

\* The end of GenerateWaveform: mPhase += mPhaseIncrement;
\* if (mPhase >= 1.0) mPhase -= 1.0;
AdvancePhase(phase, increment) ==
  LET sum == RAdd(phase, increment)
  IN  IF RLe(<<1, 1>>, sum) THEN RSub(sum, <<1, 1>>) ELSE sum

\* The oscillator over nSamples samples: sine voices run mOsc, the others
\* GenerateWaveform, which moves mPhase.
RECURSIVE OscRun(_, _)
OscRun(voice, nSamples) ==
  IF nSamples <= 0 \/ voice.mWaveform = "kSine"
    THEN voice
    ELSE OscRun([voice EXCEPT !.mPhase =
                   AdvancePhase(@, IncrementValue(voice.mPhaseIncrement))],
                nSamples - 1)

VoiceRelease(voice) == [voice EXCEPT !.mEnvelope = EnvRelease(voice.mEnvelope)]

\* What one sample of a voice adds to every output channel: the filter's
\* output times the envelope times the gain, scaled by 0.3.
VoiceSample(filtered, envelope, gain) ==
  RMul(RMul(RMul(filtered, envelope), gain), <<3, 10>>)

\* The mutation of the loop below that runs the envelope in no stage but
\* the attack.
VoiceProcessAttackOnly(voice, nSamples) ==
  IF voice.mEnvelope.mStage = "kAttack"
    THEN [voice EXCEPT !.mEnvelope = EnvRun(voice.mEnvelope, 1)]
    ELSE voice

\* ProcessSamplesAccumulating: mFilter.Process() and mEnvelope.Process()
\* once per sample.
VoiceProcessSamples(voice, nSamples) ==
  [voice EXCEPT !.mEnvelope = EnvRun(voice.mEnvelope, nSamples),
                !.mFilter.mCleared = @ /\ nSamples <= 0]

---------------------------------------------------------------------------
(* CelestialSynthDSP::ProcessMidiMsg *)

\* Base frequency of the note-on: C4 = 261.6256 Hz.
kBaseFreq == Rat(2616256, 10000)

\* freq *= pow(2, mTimbreShift * 0.1): the factor 2^(shift/1000), shift in
\* hundredths, is kept as its exponent.
ApplyTimbreShift(freq, shift) == [hz |-> freq, shift |-> shift]

\* (velocity / 127.0) * (0.5 + mWarmth * 0.5)
ScaledVelocity(velocity, warmth) ==
  RMul(Rat(velocity, 127), RAdd(<<1, 2>>, RMul(warmth, <<1, 2>>)))

\* Variants of the scan below: from the top of the pool, stealing voice 0 when
\* none is free, and over the whole array whatever mVoiceCount is.
FindFreeVoiceFromTop(voices, count, v) ==
  LET free == {w \in VoiceIdx : w >= v /\ w < count /\ ~GetBusy(voices[w])}
  IN  IF free = {} THEN -1 ELSE CHOOSE w \in free : \A x \in free : x <= w

FindFreeVoiceSteal(voices, count, v) ==
  LET free == {w \in VoiceIdx : w >= v /\ w < count /\ ~GetBusy(voices[w])}
  IN  IF free # {} THEN CHOOSE w \in free : \A x \in free : w <= x
      ELSE IF count > 0 THEN 0 ELSE -1

FindFreeVoiceNoCap(voices, count, v) ==
  LET free == {w \in VoiceIdx : w >= v /\ ~GetBusy(voices[w])}
  IN  IF free = {} THEN -1 ELSE CHOOSE w \in free : \A x \in free : w <= x

\* The first v' >= v with v' < mVoiceCount, v' < kMaxVoices and voice v' not
\* busy; -1 when the loop ends without one.
RECURSIVE FindFreeVoice(_, _, _)
FindFreeVoice(voices, count, v) ==
  IF v < count /\ v < kMaxVoices
    THEN IF ~GetBusy(voices[v]) THEN v ELSE FindFreeVoice(voices, count, v + 1)
    ELSE -1

\* A variant of the claim below that leaves out SetNote.
ClaimVoiceNoSetNote(voice, note, velocity) ==
  VoiceTrigger([voice EXCEPT
                  !.mFilter = [@ EXCEPT
                     !.mCutoff = CutoffOf(mFilterCutoff, <<0, 1>>, mSampleRate),
                     !.mResonance = mFilterResonance],
                  !.mEnvelope = [@ EXCEPT
                     !.mAttackSamples = MsToSamples(mAttack, mSampleRate),
                     !.mDecaySamples = MsToSamples(mDecay, mSampleRate),
                     !.mSustainLevel = mSustain,
                     !.mReleaseSamples = MsToSamples(mRelease, mSampleRate)]],
               ScaledVelocity(velocity, mWarmth))

\* The body of the note-on loop for the voice it found.
ClaimVoice(voice, note, velocity) ==
  LET freq == GetFrequencyForMidiNote(mScale, note, kBaseFreq)
      set == [voice EXCEPT
                !.mFrequency = ApplyTimbreShift(freq, mTimbreShift),
                !.mPhaseIncrement =
                   PhaseIncrement(ApplyTimbreShift(freq, mTimbreShift), mSampleRate),
                !.mWaveform = mWaveform,
                !.mEnvelope = [@ EXCEPT
                   !.mAttackSamples = MsToSamples(mAttack, mSampleRate),
                   !.mDecaySamples = MsToSamples(mDecay, mSampleRate),
                   !.mSustainLevel = mSustain,
                   !.mReleaseSamples = MsToSamples(mRelease, mSampleRate)],
                !.mNote = note,
                !.mVelocity = velocity]
  IN  VoiceTrigger(VoiceSetFilterResonance(
                     VoiceSetFilterCutoff(set, mFilterCutoff, <<0, 1>>, mSampleRate),
                     mFilterResonance),
                   ScaledVelocity(velocity, mWarmth))

\* The loop of the velocity-0 note-on.
ReleaseLoopVelocityZero(voices, count, note) ==
  [v \in VoiceIdx |->
     IF v < count /\ v < kMaxVoices /\ IsPlayingNote(voices[v], note)
       THEN VoiceRelease(voices[v]) ELSE voices[v]]

\* Variants of the note-off loop below: one that stops at the first voice it
\* releases, and one that does not compare the note.
ReleaseLoopNoteOffFirst(voices, count, note) ==
  LET hit == {v \in VoiceIdx : v < count /\ IsPlayingNote(voices[v], note)} IN
  [v \in VoiceIdx |->
     IF v \in hit /\ \A w \in hit : v <= w
       THEN VoiceRelease(voices[v]) ELSE voices[v]]

ReleaseLoopNoteOffAnyNote(voices, count, note) ==
  [v \in VoiceIdx |->
     IF v < count /\ v < kMaxVoices /\ GetBusy(voices[v])
       THEN VoiceRelease(voices[v]) ELSE voices[v]]

\* The loop of the note-off.
ReleaseLoopNoteOff(voices, count, note) ==
  [v \in VoiceIdx |->
     IF v < count /\ v < kMaxVoices /\ IsPlayingNote(voices[v], note)
       THEN VoiceRelease(voices[v]) ELSE voices[v]]

\* The voice a message claims, -1 when it claims none.
MidiClaimed(msg) ==
  IF msg.status = "kNoteOn" /\ msg.velocity # 0
    THEN FindFreeVoice(mVoices, mVoiceCount, 0)
    ELSE -1

\* A variant of the handler below without the velocity-0 branch.
MidiVoicesNoVelocityZero(msg) ==
  IF msg.status = "kNoteOn"
    THEN LET v == FindFreeVoice(mVoices, mVoiceCount, 0) IN
         IF v = -1 THEN mVoices
         ELSE [mVoices EXCEPT ![v] = ClaimVoice(@, msg.note, msg.velocity)]
    ELSE IF msg.status = "kNoteOff"
           THEN ReleaseLoopNoteOff(mVoices, mVoiceCount, msg.note)
           ELSE mVoices

\* mVoices after ProcessMidiMsg(msg).
MidiVoices(msg) ==
  IF msg.status = "kNoteOn"
    THEN IF msg.velocity = 0
           THEN ReleaseLoopVelocityZero(mVoices, mVoiceCount, msg.note)
           ELSE LET v == FindFreeVoice(mVoices, mVoiceCount, 0) IN
                IF v = -1 THEN mVoices
                ELSE [mVoices EXCEPT ![v] = ClaimVoice(@, msg.note, msg.velocity)]
    ELSE IF msg.status = "kNoteOff"
           THEN ReleaseLoopNoteOff(mVoices, mVoiceCount, msg.note)
           ELSE mVoices

\* The run "mVoiceCount = 1: note-on 60 sounds, note-on 64, note-off 64",
\* with any number of ProcessBlock calls in between: 1 after the note-on 60
\* that claimed a voice, 2 after the note-on 64, 3 after the note-off 64.
ScnAfterMidi(msg, claimed) ==
  LET on == msg.status = "kNoteOn" /\ msg.velocity # 0 IN
  CASE on /\ msg.note = 60 /\ mVoiceCount = 1 /\ claimed # -1 -> 1
    [] on /\ msg.note = 64 /\ scn = 1 -> 2
    [] msg.status = "kNoteOff" /\ msg.note = 64 /\ scn = 2 -> 3
    [] OTHER -> 0

\* mModWheelValue after ProcessMidiMsg(msg): controller 1 sets it to
\* value / 127.0.  A control change carries the controller in msg.note and
\* the value in msg.velocity, the two data bytes of the message.
MidiModWheelAnyController(msg) ==
  IF msg.status = "kControlChange"
    THEN Rat(msg.velocity, 127)
    ELSE mModWheelValue

MidiModWheel(msg) ==
  IF msg.status = "kControlChange" /\ msg.note = 1
    THEN Rat(msg.velocity, 127)
    ELSE mModWheelValue

ProcessMidiMsg(msg) ==
  /\ mVoices' = MidiVoices(msg)
  /\ last' = [op |-> msg.status, note |-> msg.note, arg |-> msg.velocity,
              voice |-> MidiClaimed(msg)]
  /\ scn' = ScnAfterMidi(msg, MidiClaimed(msg))
  /\ mModWheelValue' = MidiModWheel(msg)
  /\ UNCHANGED <<engine, lfos, delay, reverb, randState, mModSlots, probe, drain>>

---------------------------------------------------------------------------
(* CelestialSynthDSP::ProcessBlock, the voices *)

Min(a, b) == IF a < b THEN a ELSE b

ActiveVoices == Min(mVoiceCount, kMaxVoices)

BlockVoices(nFrames) ==
  [v \in VoiceIdx |->
     IF v < ActiveVoices /\ GetBusy(mVoices[v])
       THEN VoiceProcessSamples(mVoices[v], nFrames) ELSE mVoices[v]]

\* The same loop with the oscillators of the busy voices followed.
BlockVoicesOsc(nFrames) ==
  [v \in VoiceIdx |->
     IF v < ActiveVoices /\ GetBusy(mVoices[v])
       THEN OscRun(VoiceProcessSamples(mVoices[v], nFrames), nFrames)
       ELSE mVoices[v]]

\* The voice indices the loops reach.  The three loops of ProcessMidiMsg
\* test v < mVoiceCount && v < kMaxVoices from v = 0 on; the note-on loop
\* leaves at the first free voice, the others run to the end.
InVoiceLoopCountOnly(count, v) == v < count

InVoiceLoop(count, v) == v < count /\ v < kMaxVoices

RECURSIVE LoopIndices(_, _)
LoopIndices(count, v) ==
  IF InVoiceLoop(count, v) THEN {v} \cup LoopIndices(count, v + 1) ELSE {}

\* The loop of ProcessBlock runs v from 0 below activeVoices.
BlockIndices(count) == 0 .. (Min(count, kMaxVoices) - 1)

---------------------------------------------------------------------------
(* CelestialSynthDSP::ProcessBlock, the modulation matrix *)

ModSources == {"kNone", "kLFO1", "kLFO2", "kAmpEnv", "kVelocity", "kModWheel"}
ModDestinations ==
  {"kNone", "kPitch", "kFilterCutoff", "kFilterRes", "kAmplitude", "kPan"}

ModulationSlot(source, dest, depth, enabled) ==
  [source |-> source, dest |-> dest, depth |-> depth, enabled |-> enabled]

\* A default-constructed slot: empty and disabled.
EmptySlot == ModulationSlot("kNone", "kNone", <<0, 1>>, FALSE)

\* mModSlots after InitializeDefaultModulations: six routings and the two
\* reserved slots.
DefaultModulations ==
  << ModulationSlot("kLFO1", "kFilterCutoff", <<3, 10>>, TRUE),
     ModulationSlot("kLFO1", "kPitch", <<1, 20>>, FALSE),
     ModulationSlot("kLFO2", "kPan", <<1, 2>>, FALSE),
     ModulationSlot("kAmpEnv", "kFilterCutoff", <<1, 2>>, TRUE),
     ModulationSlot("kVelocity", "kAmplitude", <<1, 2>>, TRUE),
     ModulationSlot("kModWheel", "kFilterCutoff", <<3, 5>>, FALSE),
     EmptySlot,
     EmptySlot >>

kNumModSlots == Len(DefaultModulations)

\* mModSourceValues at the top of a block; lfo1 and lfo2 are what
\* mLFO1.Process() and mLFO2.Process() return, values in [-1, 1].
ModSourceValues(lfo1, lfo2) ==
  [src \in ModSources |->
     CASE src = "kNone" -> <<0, 1>>
       [] src = "kLFO1" -> lfo1
       [] src = "kLFO2" -> lfo2
       [] src = "kAmpEnv" -> <<1, 2>>
       [] src = "kVelocity" -> <<1, 2>>
       [] src = "kModWheel" -> mModWheelValue]

\* modPitch, modFilterCutoff, modFilterRes, modAmplitude and modPan at 0.0.
ModZero == [dest \in ModDestinations \ {"kNone"} |-> <<0, 1>>]

\* The mutation of SlotSkipped that ignores the enabled flag.
SlotSkippedIgnoresEnabled(slot) ==
  \/ slot.source = "kNone"
  \/ slot.dest = "kNone"
  \/ slot.source \in {"kVelocity", "kAmpEnv"}

\* The mutation of SlotSkipped that lets the per-voice sources through.
SlotSkippedKeepsPerVoice(slot) ==
  ~slot.enabled \/ slot.source = "kNone" \/ slot.dest = "kNone"

\* The two `continue` tests of the slot loop.
SlotSkipped(slot) ==
  \/ ~slot.enabled \/ slot.source = "kNone" \/ slot.dest = "kNone"
  \/ slot.source \in {"kVelocity", "kAmpEnv"}

\* One pass of the slot loop's body over the accumulators acc.
ModAccumulate(acc, slot, sourceValues) ==
  IF SlotSkipped(slot)
    THEN acc
    ELSE [acc EXCEPT ![slot.dest] =
            RAdd(@, RMul(sourceValues[slot.source], slot.depth))]

\* The accumulators after the slot loop over slots.
RECURSIVE ModAmounts(_, _)
ModAmounts(slots, sourceValues) ==
  IF slots = << >>
    THEN ModZero
    ELSE ModAccumulate(ModAmounts(SubSeq(slots, 1, Len(slots) - 1), sourceValues),
                       slots[Len(slots)], sourceValues)

\* The variant of ModulatedResonance below that leaves out the base.
ModulatedResonanceNoBase(base, modFilterRes) ==
  RMax(<<0, 1>>, RMin(modFilterRes, <<1, 1>>))

\* modulatedRes: the base plus the accumulator, limited to [0, 1].
ModulatedResonance(base, modFilterRes) ==
  RMax(<<0, 1>>, RMin(RAdd(base, modFilterRes), <<1, 1>>))

\* The exponent of cutoffMult, modFilterCutoff * 4.0; an accumulator of 0.0
\* leaves the base as it is.
CutoffOctaves(modFilterCutoff) == RMul(modFilterCutoff, <<4, 1>>)

\* The voice loop before ProcessSamplesAccumulating: every busy voice below
\* activeVoices gets the modulated cutoff and resonance, voices being those
\* after the samples and busy the test on the voices before them.
BlockFilters(voices, mod) ==
  [v \in VoiceIdx |->
     IF v < ActiveVoices /\ GetBusy(mVoices[v])
       THEN VoiceSetFilterResonance(
              VoiceSetFilterCutoff(voices[v], mFilterCutoff,
                                   CutoffOctaves(mod["kFilterCutoff"]), mSampleRate),
              ModulatedResonance(mFilterResonance, mod["kFilterRes"]))
       ELSE voices[v]]

---------------------------------------------------------------------------
(* CelestialSynthDSP::ProcessBlock, the delay line *)

DelayIdx == 0 .. (kMaxDelayBufferSize - 1)

\* The length of the two delay buffers, kMaxDelayBufferSize in the program:
\* the buffers of the state are indexed from 0 below it.
DelayBufferSize == Cardinality(DOMAIN mDelayBufferL)

\* The conversion (int)(x) of n / d, d > 0: truncation toward zero.
Trunc(n, d) == IF n >= 0 THEN n \div d ELSE -((-n) \div d)

\* delaySamples: (int)((mDelayTime / 1000.0) * mSampleRate), then std::min
\* with kMaxDelayBufferSize - 1.
DelaySamples ==
  Min(Trunc(mDelayTime * mSampleRate, 1000), DelayBufferSize - 1)

\* readPos for the write position w.
ReadPos(w) ==
  LET readPos == w - DelaySamples
  IN  IF readPos < 0 THEN readPos + DelayBufferSize ELSE readPos

\* What a channel's delay stage reports when it did not run.
NoTap ==
  [ran |-> FALSE, delaySamples |-> 0, readPos |-> 0, delayed |-> <<0, 1>>,
   written |-> <<0, 1>>, out |-> <<0, 1>>]

\* The delay stage for one sample of one channel: buffer buf, write position
\* w, the sample dry that reaches the stage.  A read outside the buffer is
\* undefined behaviour: it yields garbage, whatever the memory holds.
DelaySample(buf, w, dry, garbage) ==
  IF RLt(<<1, 100>>, mDelayMix)
    THEN LET readPos == ReadPos(w)
             delayedSample == IF readPos \in DOMAIN buf THEN buf[readPos] ELSE garbage
             sample == RAdd(RMul(dry, RSub(<<1, 1>>, mDelayMix)),
                            RMul(delayedSample, mDelayMix))
             written == RAdd(sample, RMul(delayedSample, mDelayFeedback))
         IN  [buf |-> [buf EXCEPT ![w] = written],
              tap |-> [ran |-> TRUE, delaySamples |-> DelaySamples,
                       readPos |-> readPos, delayed |-> delayedSample,
                       written |-> written, out |-> sample]]
    ELSE [buf |-> buf, tap |-> [NoTap EXCEPT !.out = dry]]

\* The variant of NextWritePos below that wraps one position late.
NextWritePosWrapsLate(w) == IF w + 1 > DelayBufferSize THEN 0 ELSE w + 1

\* mDelayWritePos++ with the wrap, at the end of each channel's pass.
NextWritePos(w) == IF w + 1 >= DelayBufferSize THEN 0 ELSE w + 1

---------------------------------------------------------------------------
(* rand() of the C library *)

\* RAND_MAX, scaled: rand() returns 0 .. kRandMax.
kRandMax == 2

\* The generator has one state for the whole process; a call returns a
\* value that depends on the state alone and moves the state on.
RandStates == 0 .. kRandMax
Rand(state) == state
NextRand(state) == (state + 1) % (kRandMax + 1)

---------------------------------------------------------------------------
(* LFO *)

\* a / n in a double: for n = 0 the quotient of a positive a is infinite,
\* written <<1, 0>>.
Infinity == <<1, 0>>
DivBySampleRate(a, n) == IF n = 0 THEN Infinity ELSE RDiv(a, RInt(n))

\* mLFO1Rate and mLFO2Rate, Hz.
mLFO1Rate == <<1, 1>>
mLFO2Rate == <<2, 1>>

\* An LFO as constructed.
LFOInit ==
  [ mSampleRate |-> 44100,
    mRateHz |-> <<1, 1>>,
    mPhase |-> <<0, 1>>,
    mPhaseIncrement |-> <<0, 1>>,
    mPreviousPhase |-> <<0, 1>>,
    mRandomValue |-> <<0, 1>>,
    mWaveform |-> "kSine",
    mBipolar |-> TRUE ]

UpdatePhaseIncrement(lfo) ==
  [lfo EXCEPT !.mPhaseIncrement = DivBySampleRate(lfo.mRateHz, lfo.mSampleRate)]

LFOSetSampleRate(lfo, sr) == UpdatePhaseIncrement([lfo EXCEPT !.mSampleRate = sr])

\* SetRate clamps to 0.01 Hz .. 20 Hz.
LFOSetRate(lfo, hz) ==
  UpdatePhaseIncrement(
    [lfo EXCEPT !.mRateHz = RMax(<<1, 100>>, RMin(hz, <<20, 1>>))])

\* The mutation of Reset that leaves mRandomValue as it is.
LFOResetPhases(lfo) ==
  [lfo EXCEPT !.mPhase = <<0, 1>>, !.mPreviousPhase = <<0, 1>>]

LFOReset(lfo) ==
  [lfo EXCEPT !.mPhase = <<0, 1>>, !.mRandomValue = <<0, 1>>,
              !.mPreviousPhase = <<0, 1>>]

\* std::sin(mPhase * 2.0 * 3.14159265359) at the quarter turns, the phases
\* an LFO takes when its increment is a multiple of 1/4; 0 at the half turn
\* stands for the 2e-13 by which the literal misses pi.
SinTurns(phase) ==
  CASE phase = <<0, 1>> -> <<0, 1>>
    [] phase = <<1, 4>> -> <<1, 1>>
    [] phase = <<1, 2>> -> <<0, 1>>
    [] phase = <<3, 4>> -> <<-1, 1>>

\* The mutation of LFOAdvance that moves the phase on twice.
LFOAdvanceTwice(phase, increment) ==
  LET sum == RAdd(RAdd(phase, increment), increment)
  IN  IF RLe(<<1, 1>>, sum) THEN RSub(sum, <<1, 1>>) ELSE sum

\* mPhase += mPhaseIncrement; if (mPhase >= 1.0) mPhase -= 1.0;
LFOAdvance(phase, increment) ==
  LET sum == RAdd(phase, increment)
  IN  IF RLe(<<1, 1>>, sum) THEN RSub(sum, <<1, 1>>) ELSE sum

\* LFO::Process with the generator in state rand: the LFO after the call,
\* the value returned and the generator's state after the call.
LFOProcess(lfo, rand) ==
  LET wrapped == lfo.mWaveform = "kRandom" /\ RLt(lfo.mPhase, lfo.mPreviousPhase)
      held == IF wrapped
                THEN RSub(RMul(Rat(Rand(rand), kRandMax), <<2, 1>>), <<1, 1>>)
                ELSE lfo.mRandomValue
      output ==
        CASE lfo.mWaveform = "kSine" -> SinTurns(lfo.mPhase)
          [] lfo.mWaveform = "kTriangle" ->
               IF RLt(lfo.mPhase, <<1, 2>>)
                 THEN RSub(RMul(lfo.mPhase, <<4, 1>>), <<1, 1>>)
                 ELSE RSub(<<3, 1>>, RMul(lfo.mPhase, <<4, 1>>))
          [] lfo.mWaveform = "kSawUp" -> RSub(RMul(lfo.mPhase, <<2, 1>>), <<1, 1>>)
          [] lfo.mWaveform = "kSawDown" -> RSub(<<1, 1>>, RMul(lfo.mPhase, <<2, 1>>))
          [] lfo.mWaveform = "kSquare" ->
               IF RLt(lfo.mPhase, <<1, 2>>) THEN <<1, 1>> ELSE <<-1, 1>>
          [] lfo.mWaveform = "kRandom" -> held
  IN  [lfo |-> [lfo EXCEPT !.mRandomValue = held,
                           !.mPreviousPhase = lfo.mPhase,
                           !.mPhase = LFOAdvance(lfo.mPhase, lfo.mPhaseIncrement)],
       out |-> IF lfo.mBipolar THEN output
                               ELSE RMul(RAdd(output, <<1, 1>>), <<1, 2>>),
       rand |-> IF wrapped THEN NextRand(rand) ELSE rand]

\* An LFO whose phase is not followed: the value is one of those Process
\* can return, the LFO and the generator stay as they are.
LFOHeld(lfo, value, rand) == [lfo |-> lfo, out |-> value, rand |-> rand]

---------------------------------------------------------------------------
(* SimpleReverb *)

\* The length of the four comb and the two allpass lines, scaled from
\* 1557, 1617, 1491, 1422 and 225, 341 samples.
kReverbDelay == 2

Combs == 1 .. 4
Allpasses == 1 .. 2
ReverbIdx == 0 .. (kReverbDelay - 1)

\* A SimpleReverb after Reset: every line at zero, every position at 0.
ReverbReset ==
  [ mCombBuffer |-> [i \in Combs |-> [k \in ReverbIdx |-> <<0, 1>>]],
    mCombPos |-> [i \in Combs |-> 0],
    mAllpass |-> [i \in Allpasses |-> [k \in ReverbIdx |-> <<0, 1>>]],
    mAllpassPos |-> [i \in Allpasses |-> 0] ]

combGain == <<84, 100>>
allpassGain == <<1, 2>>

\* One allpass stage: line and position before, the input; the stage's
\* line and position after and its output.
AllpassStage(line, pos, input) ==
  LET delayed == line[pos]
      in == RAdd(input, RMul(delayed, allpassGain))
  IN  [line |-> [line EXCEPT ![pos] = in],
       pos |-> (pos + 1) % kReverbDelay,
       out |-> RSub(delayed, RMul(in, allpassGain))]

\* SimpleReverb::Process(input): the reverb after the call and the value
\* returned.
ReverbProcess(rev, input) ==
  LET comb == [i \in Combs |-> rev.mCombBuffer[i][rev.mCombPos[i]]]
      combSum == RMul(RAdd(RAdd(comb[1], comb[2]), RAdd(comb[3], comb[4])),
                      <<1, 4>>)
      first == AllpassStage(rev.mAllpass[1], rev.mAllpassPos[1], combSum)
      second == AllpassStage(rev.mAllpass[2], rev.mAllpassPos[2], first.out)
  IN  [rev |->
         [ mCombBuffer |->
             [i \in Combs |->
                [rev.mCombBuffer[i] EXCEPT ![rev.mCombPos[i]] =
                   RAdd(input, RMul(comb[i], combGain))]],
           mCombPos |-> [i \in Combs |-> (rev.mCombPos[i] + 1) % kReverbDelay],
           mAllpass |-> [i \in Allpasses |-> IF i = 1 THEN first.line ELSE second.line],
           mAllpassPos |-> [i \in Allpasses |-> IF i = 1 THEN first.pos ELSE second.pos] ],
       out |-> second.out]

---------------------------------------------------------------------------
(* CelestialSynthDSP::ProcessBlock *)

\* The samples the model's signals take: what the caller left in a buffer,
\* what the busy voices add to a sample, and their sum.
Levels == {<<0, 1>>, <<1, 1>>, <<2, 1>>}

\* The five controls and the master gain turn the sample the voices left
\* into the sample the effects get; with sin and tanh in them they are a
\* function the model draws from these: the controls at rest with unity gain,
\* with gain 0.5, and a saturating curve.
Unity == [x \in Levels |-> x]
ControlCurves ==
  { Unity,
    [x \in Levels |-> RMul(x, <<1, 2>>)],
    [x \in Levels |-> IF x = <<2, 1>> THEN <<3, 2>> ELSE x] }

\* The mutation of ClearOutputs that leaves the buffers as they came.
KeepOutputs(prior) == prior

\* outputs[c][s] = 0.0 for a sample that held prior.
ClearOutputs(prior) == <<0, 1>>

\* The delay and the reverb stage for one sample of one channel.  ch holds
\* the channel's delay buffer, its reverb, the last delay tap and the output
\* samples so far.
ReverbMixed(sample, wet) ==
  [rev |-> wet.rev,
   out |-> RAdd(RMul(sample, RSub(<<1, 1>>, mReverbMix)),
                RMul(wet.out, mReverbMix))]

\* The reverb stage for the sample that leaves the delay stage: the reverb
\* after it and the sample written to the output.
ReverbSample(rev, sample) ==
  IF RLt(<<1, 100>>, mReverbMix)
    THEN ReverbMixed(sample, ReverbProcess(rev, sample))
    ELSE [rev |-> rev, out |-> sample]

EffectsJoin(ch, delayed, wet) ==
  [buf |-> delayed.buf, rev |-> wet.rev, tap |-> delayed.tap,
   out |-> Append(ch.out, wet.out)]

EffectsAfterDelay(ch, delayed) ==
  EffectsJoin(ch, delayed, ReverbSample(ch.rev, delayed.tap.out))

EffectsSample(ch, w, dry, garbage) ==
  EffectsAfterDelay(ch, DelaySample(ch.buf, w, dry, garbage))

\* The sample loop of one channel over nFrames samples.
RECURSIVE EffectsChannel(_, _, _, _, _, _)
EffectsChannel(buf, rev, w, nFrames, dry, garbage) ==
  IF nFrames <= 0
    THEN [buf |-> buf, rev |-> rev, tap |-> NoTap, out |-> << >>]
    ELSE EffectsSample(EffectsChannel(buf, rev, w, nFrames - 1, dry, garbage),
                       w, dry, garbage)

\* probe before any block.
NoProbe(on) ==
  [on |-> on, n |-> 0, dry |-> <<0, 1>>, src |-> ModSourceValues(<<0, 1>>, <<0, 1>>),
   mod |-> ModZero, L |-> NoTap, R |-> NoTap, prior |-> <<0, 1>>,
   outL |-> <<0, 1>>, outR |-> <<0, 1>>]

\* The last sample of a channel's output, 0 for an empty block.
LastOut(out) == IF out = << >> THEN <<0, 1>> ELSE out[Len(out)]

\* The state and the output after a block: first and second are what the
\* two LFOs gave, dry the sample that reached the effects, w the write
\* position after both channels, chL and chR the channels after their loops.
BlockJoin(in, first, second, dry, w, chL, chR) ==
  [ mLFO1 |-> first.lfo,
    mLFO2 |-> second.lfo,
    randState |-> second.rand,
    mVoices |-> BlockFilters(IF in.follow THEN BlockVoicesOsc(in.nFrames)
                                          ELSE BlockVoices(in.nFrames),
                             ModAmounts(mModSlots,
                                        ModSourceValues(first.out, second.out))),
    mDelayBufferL |-> chL.buf,
    mDelayBufferR |-> chR.buf,
    mDelayWritePos |-> w,
    mReverbL |-> chL.rev,
    mReverbR |-> chR.rev,
    outputs |-> <<chL.out, chR.out>>,
    probe |-> IF probe.on
                THEN [on |-> TRUE, n |-> probe.n + 1, dry |-> dry,
                      src |-> ModSourceValues(first.out, second.out),
                      mod |-> ModAmounts(mModSlots,
                                         ModSourceValues(first.out, second.out)),
                      L |-> chL.tap, R |-> chR.tap, prior |-> in.prior,
                      outL |-> LastOut(chL.out), outR |-> LastOut(chR.out)]
                ELSE probe ]

\* What ProcessBlock, for two output channels (CelestialSynth.cpp:339), makes
\* of the state and of its inputs in:
\*   nFrames   the frame count;
\*   prior     what the caller left in every output sample;
\*   voiced    what the busy voices add to every sample;
\*   controls  the curve of the five controls and the gain;
\*   garbage   what a read outside a delay buffer returns;
\*   follow    whether the LFOs and the oscillators are run from their
\*             state; where they are not, lfo1 and lfo2 are the values the
\*             LFOs return and the phases stay.
BlockResult(in) ==
  LET first == IF in.follow THEN LFOProcess(mLFO1, randState)
                            ELSE LFOHeld(mLFO1, in.lfo1, randState)
      second == IF in.follow THEN LFOProcess(mLFO2, first.rand)
                             ELSE LFOHeld(mLFO2, in.lfo2, first.rand)
      dry == in.controls[RAdd(ClearOutputs(in.prior), in.voiced)]
      wL == mDelayWritePos
      wR == NextWritePos(wL)
  IN  BlockJoin(in, first, second, dry, NextWritePos(wR),
                EffectsChannel(mDelayBufferL, mReverbL, wL, in.nFrames, dry, in.garbage),
                EffectsChannel(mDelayBufferR, mReverbR, wR, in.nFrames, dry, in.garbage))

ProcessBlockWith(in) ==
  \E result \in {BlockResult(in)} :
      /\ mLFO1' = result.mLFO1
      /\ mLFO2' = result.mLFO2
      /\ randState' = result.randState
      /\ mVoices' = result.mVoices
      /\ mDelayBufferL' = result.mDelayBufferL
      /\ mDelayBufferR' = result.mDelayBufferR
      /\ mDelayWritePos' = result.mDelayWritePos
      /\ mReverbL' = result.mReverbL
      /\ mReverbR' = result.mReverbR
      /\ probe' = result.probe
      /\ last' = [op |-> "ProcessBlock", note |-> -1, arg |-> in.nFrames, voice |-> -1]
      /\ scn' = IF scn = 3 THEN 0 ELSE scn
      /\ UNCHANGED <<engine, mDelayTime, mDelayFeedback, mDelayMix, mReverbMix,
                     modulation, drain>>

\* A block whose LFO values are lfo1 and lfo2 and whose effects get the
\* sample dry, into buffers the caller left at zero.
ProcessBlockOf(nFrames, lfo1, lfo2, dry, garbage) ==
  ProcessBlockWith([nFrames |-> nFrames, follow |-> FALSE, lfo1 |-> lfo1,
                    lfo2 |-> lfo2, voiced |-> dry, controls |-> Unity,
                    garbage |-> garbage, prior |-> <<0, 1>>])

\* A block with the effects mixed out and silent LFOs: neither the LFO
\* values nor the sample reach the state.
ProcessBlock(nFrames) ==
  ProcessBlockOf(nFrames, <<0, 1>>, <<0, 1>>, <<0, 1>>, <<0, 1>>)

---------------------------------------------------------------------------
(* CelestialSynthDSP::Reset *)

\* The mutation of InitializeDefaultModulations that leaves the table as it
\* is.
KeepModulations(slots) == slots

\* InitializeDefaultModulations: every slot cleared, then the six routings.
InitializeDefaultModulations(slots) == DefaultModulations

\* Reset(sampleRate, blockSize); blockSize is not read.  The sample rate is
\* stored whatever its value, and a voice gets SetSampleRate, nothing else.
Reset(sampleRate) ==
  LET sr == sampleRate
  IN  /\ mSampleRate' = sr
      /\ mVoices' = [v \in VoiceIdx |-> VoiceSetSampleRate(mVoices[v], sr)]
      /\ mDelayBufferL' = [i \in DOMAIN mDelayBufferL |-> <<0, 1>>]
      /\ mDelayBufferR' = [i \in DOMAIN mDelayBufferR |-> <<0, 1>>]
      /\ mDelayWritePos' = 0
      /\ mReverbL' = ReverbReset
      /\ mReverbR' = ReverbReset
      /\ mLFO1' = LFOReset(LFOSetRate(LFOSetSampleRate(mLFO1, sr), mLFO1Rate))
      /\ mLFO2' = LFOReset(LFOSetRate(LFOSetSampleRate(mLFO2, sr), mLFO2Rate))
      /\ mModSlots' = InitializeDefaultModulations(mModSlots)
      /\ last' = [op |-> "Reset", note |-> -1, arg |-> sampleRate, voice |-> -1]
      /\ UNCHANGED <<mVoiceCount, mAttack, mDecay, mSustain, mRelease, mWaveform,
                     mScale, mTimbreShift, mWarmth,
               mFilterCutoff, mFilterResonance, mDelayTime, mDelayFeedback,
                     mDelayMix, mReverbMix, randState, mModWheelValue, probe,
                     scn, drain>>

---------------------------------------------------------------------------
(* The setters *)

SetVoiceCount(count) ==
  /\ mVoiceCount' = count
  /\ last' = [op |-> "SetVoiceCount", note |-> -1, arg |-> count, voice |-> -1]
  /\ scn' = 0
  /\ UNCHANGED <<mVoices, mSampleRate, mAttack, mDecay, mSustain, mRelease,
                 mWaveform, mScale, mTimbreShift, mWarmth,
               mFilterCutoff, mFilterResonance, lfos, delay, reverb, randState,
                 modulation, probe, drain>>

\* CelestialSynthDSP::SetFilterCutoff and SetFilterResonance: the base
\* values, read by the next note-on and the next block.
SetFilterCutoff(value) ==
  /\ mFilterCutoff' = value
  /\ last' = [op |-> "SetFilterCutoff", note |-> -1, arg |-> value, voice |-> -1]
  /\ UNCHANGED <<mVoices, mVoiceCount, mSampleRate, mAttack, mDecay, mSustain,
                 mRelease, mWaveform, mScale, mTimbreShift, mWarmth,
                 mFilterResonance, lfos, delay, reverb, randState, modulation,
                 probe, scn, drain>>

SetFilterResonance(value) ==
  /\ mFilterResonance' = value
  /\ last' = [op |-> "SetFilterResonance", note |-> -1, arg |-> value, voice |-> -1]
  /\ UNCHANGED <<mVoices, mVoiceCount, mSampleRate, mAttack, mDecay, mSustain,
                 mRelease, mWaveform, mScale, mTimbreShift, mWarmth,
                 mFilterCutoff, lfos, delay, reverb, randState, modulation,
                 probe, scn, drain>>

SetAttack(value) ==
  /\ mAttack' = value
  /\ last' = [op |-> "SetAttack", note |-> -1, arg |-> value, voice |-> -1]
  /\ UNCHANGED <<mVoices, mVoiceCount, mSampleRate, mDecay, mSustain, mRelease,
                 mWaveform, mScale, mTimbreShift, mWarmth,
               mFilterCutoff, mFilterResonance, lfos, delay, reverb, randState,
                 modulation, probe, scn, drain>>

SetDecay(value) ==
  /\ mDecay' = value
  /\ last' = [op |-> "SetDecay", note |-> -1, arg |-> value, voice |-> -1]
  /\ UNCHANGED <<mVoices, mVoiceCount, mSampleRate, mAttack, mSustain, mRelease,
                 mWaveform, mScale, mTimbreShift, mWarmth,
               mFilterCutoff, mFilterResonance, lfos, delay, reverb, randState,
                 modulation, probe, scn, drain>>

SetSustain(value) ==
  /\ mSustain' = value
  /\ last' = [op |-> "SetSustain", note |-> -1, arg |-> value, voice |-> -1]
  /\ UNCHANGED <<mVoices, mVoiceCount, mSampleRate, mAttack, mDecay, mRelease,
                 mWaveform, mScale, mTimbreShift, mWarmth,
               mFilterCutoff, mFilterResonance, lfos, delay, reverb, randState,
                 modulation, probe, scn, drain>>

SetReleaseTime(value) ==
  /\ mRelease' = value
  /\ last' = [op |-> "SetReleaseTime", note |-> -1, arg |-> value, voice |-> -1]
  /\ UNCHANGED <<mVoices, mVoiceCount, mSampleRate, mAttack, mDecay, mSustain,
                 mWaveform, mScale, mTimbreShift, mWarmth,
               mFilterCutoff, mFilterResonance, lfos, delay, reverb, randState,
                 modulation, probe, scn, drain>>

\* The mutation of SetScale that retunes the voices that are sounding.
SetScaleRetunes(scale) ==
  /\ mScale' = IF scale >= 0 /\ scale < kNumScales THEN scale ELSE mScale
  /\ mVoices' = [v \in VoiceIdx |->
                   IF GetBusy(mVoices[v])
                     THEN [mVoices[v] EXCEPT !.mFrequency =
                             ApplyTimbreShift(
                               GetFrequencyForMidiNote(mScale', mVoices[v].mNote, kBaseFreq),
                               mTimbreShift)]
                     ELSE mVoices[v]]
  /\ last' = [op |-> "SetScale", note |-> -1, arg |-> scale, voice |-> -1]
  /\ UNCHANGED <<mVoiceCount, mSampleRate, mAttack, mDecay, mSustain,
                 mRelease, mWaveform, mTimbreShift, mWarmth,
               mFilterCutoff, mFilterResonance, lfos, delay, reverb, randState,
                 modulation, probe, scn, drain>>

\* The mutation of SetScale without the range test.
SetScaleUnguarded(scale) ==
  /\ mScale' = scale
  /\ last' = [op |-> "SetScale", note |-> -1, arg |-> scale, voice |-> -1]
  /\ UNCHANGED <<mVoices, mVoiceCount, mSampleRate, mAttack, mDecay, mSustain,
                 mRelease, mWaveform, mTimbreShift, mWarmth,
               mFilterCutoff, mFilterResonance, lfos, delay, reverb, randState,
                 modulation, probe, scn, drain>>

\* CelestialSynthDSP::SetScale: the scale system's mCurrentScale, when scale
\* is one of the kNumScales scales.
SetScale(scale) ==
  /\ mScale' = IF scale >= 0 /\ scale < kNumScales THEN scale ELSE mScale
  /\ last' = [op |-> "SetScale", note |-> -1, arg |-> scale, voice |-> -1]
  /\ UNCHANGED <<mVoices, mVoiceCount, mSampleRate, mAttack, mDecay, mSustain,
                 mRelease, mWaveform, mTimbreShift, mWarmth,
               mFilterCutoff, mFilterResonance, lfos, delay, reverb, randState,
                 modulation, probe, scn, drain>>

WaveformType == <<"kSine", "kSaw", "kSquare", "kTriangle">>
kNumWaveforms == Len(WaveformType)

SetWaveform(wf) ==
  /\ mWaveform' = IF wf >= 0 /\ wf < kNumWaveforms THEN WaveformType[wf + 1]
                                                    ELSE mWaveform
  /\ last' = [op |-> "SetWaveform", note |-> -1, arg |-> wf, voice |-> -1]
  /\ UNCHANGED <<mVoices, mVoiceCount, mSampleRate, mAttack, mDecay, mSustain,
                 mRelease, mScale, mTimbreShift, mWarmth,
               mFilterCutoff, mFilterResonance, lfos, delay, reverb, randState,
                 modulation, probe, scn, drain>>

LFOWaveform == <<"kSine", "kTriangle", "kSawUp", "kSawDown", "kSquare", "kRandom">>
kNumLFOWaveforms == Len(LFOWaveform)

SetLFO1Waveform(wf) ==
  /\ mLFO1' = IF wf >= 0 /\ wf < kNumLFOWaveforms
                THEN [mLFO1 EXCEPT !.mWaveform = LFOWaveform[wf + 1]]
                ELSE mLFO1
  /\ last' = [op |-> "SetLFO1Waveform", note |-> -1, arg |-> wf, voice |-> -1]
  /\ UNCHANGED <<mVoices, engine, mLFO2, delay, reverb, randState, modulation, probe, scn, drain>>

SetLFO2Waveform(wf) ==
  /\ mLFO2' = IF wf >= 0 /\ wf < kNumLFOWaveforms
                THEN [mLFO2 EXCEPT !.mWaveform = LFOWaveform[wf + 1]]
                ELSE mLFO2
  /\ last' = [op |-> "SetLFO2Waveform", note |-> -1, arg |-> wf, voice |-> -1]
  /\ UNCHANGED <<mVoices, engine, mLFO1, delay, reverb, randState, modulation, probe, scn, drain>>

\* value in hundredths, the step of the parameter (CelestialSynth.cpp:13).
SetTimbreShift(value) ==
  /\ mTimbreShift' = value
  /\ last' = [op |-> "SetTimbreShift", note |-> -1, arg |-> value, voice |-> -1]
  /\ UNCHANGED <<mVoices, mVoiceCount, mSampleRate, mAttack, mDecay, mSustain,
                 mRelease, mWaveform, mScale, mWarmth,
               mFilterCutoff, mFilterResonance, lfos, delay, reverb, randState,
                 modulation, probe, scn, drain>>

SetDelayTime(value) ==
  /\ mDelayTime' = value
  /\ last' = [op |-> "SetDelayTime", note |-> -1, arg |-> value, voice |-> -1]
  /\ UNCHANGED <<mVoices, engine, lfos, mDelayFeedback, mDelayMix, mDelayBufferL,
                 mDelayBufferR, mDelayWritePos, reverb, randState,
                 modulation, probe, scn, drain>>

SetDelayFeedback(value) ==
  /\ mDelayFeedback' = value
  /\ last' = [op |-> "SetDelayFeedback", note |-> -1, arg |-> value, voice |-> -1]
  /\ UNCHANGED <<mVoices, engine, lfos, mDelayTime, mDelayMix, mDelayBufferL,
                 mDelayBufferR, mDelayWritePos, reverb, randState,
                 modulation, probe, scn, drain>>

SetDelayMix(value) ==
  /\ mDelayMix' = value
  /\ last' = [op |-> "SetDelayMix", note |-> -1, arg |-> value, voice |-> -1]
  /\ UNCHANGED <<mVoices, engine, lfos, mDelayTime, mDelayFeedback, mDelayBufferL,
                 mDelayBufferR, mDelayWritePos, reverb, randState,
                 modulation, probe, scn, drain>>

---------------------------------------------------------------------------
(* The voice pool: every message, block size and voice count, one envelope *)
(* setting *)

Notes == {60, 64}
Velocities == {0, 100}
NoteMsgs ==
  [status : {"kNoteOn"}, note : Notes, velocity : Velocities]
    \cup [status : {"kNoteOff"}, note : Notes, velocity : {0}]
VoiceCounts == {0, 1, kMaxVoices, kMaxVoices + 1}

NoCall == [op |-> "none", note |-> -1, arg |-> -1, voice |-> -1]

\* The LFOs, the delay line and the modulation table after construction and
\* Reset, with the delay mixed out (DelayMix is 0 .. 1, CelestialSynth.cpp:28).
EffectsAt(sr) ==
  /\ mLFO1 = LFOReset(LFOSetRate(LFOSetSampleRate(LFOInit, sr), mLFO1Rate))
  /\ mLFO2 = LFOReset(LFOSetRate(LFOSetSampleRate(LFOInit, sr), mLFO2Rate))
  /\ mReverbMix = <<0, 1>>
  /\ mReverbL = ReverbReset
  /\ mReverbR = ReverbReset
  /\ randState = 0
  /\ mDelayTime = 250
  /\ mDelayFeedback = <<3, 10>>
  /\ mDelayMix = <<0, 1>>
  /\ mDelayBufferL = [i \in DelayIdx |-> <<0, 1>>]
  /\ mDelayBufferR = [i \in DelayIdx |-> <<0, 1>>]
  /\ mDelayWritePos = 0
  /\ mModSlots = DefaultModulations
  /\ mModWheelValue = <<0, 1>>

EffectsInit == EffectsAt(1000)

\* The engine after construction and the host's first OnReset and
\* OnParamChange calls, which set the sample rate and every parameter.
Init ==
  /\ mVoices = [v \in VoiceIdx |-> VoiceSetSampleRate(VoiceInit, 1000)]
  /\ mVoiceCount \in VoiceCounts
  /\ mSampleRate = 1000
  /\ mAttack = 1
  /\ mDecay = 1
  /\ mSustain = <<1, 1>>
  /\ mRelease = 1
  /\ mWaveform = "kSine"
  /\ mScale = 0
  /\ mTimbreShift = 0
  /\ mWarmth = <<3, 5>>
  /\ mFilterCutoff = 20000
  /\ mFilterResonance = <<0, 1>>
  /\ EffectsInit
  /\ probe = NoProbe(FALSE)
  /\ last = NoCall
  /\ scn = 0
  /\ drain = [on |-> FALSE, rel |-> {}]

Next ==
  \/ \E msg \in NoteMsgs : ProcessMidiMsg(msg)
  \/ \E nFrames \in 0 .. MaxFrames : ProcessBlock(nFrames)
  \/ \E count \in VoiceCounts : SetVoiceCount(count)

Spec == Init /\ [][Next]_vars

---------------------------------------------------------------------------
(* One voice, every envelope setting: the four ADSR setters, one note *)

\* Attack, decay and release times in ms and sustain levels, inside the ranges
\* of the plugin parameters (CelestialSynth.cpp:20-23); at 500 samples per
\* second 1, 3 and 5 ms are 0.5, 1.5 and 2.5 samples.
AttackMs == {1, 5}
DecayMs == {3}
SustainLevels == {<<0, 1>>, <<1, 2>>}
ReleaseMs == {1, 3}
EnvMsgs ==
  [status : {"kNoteOn"}, note : {60}, velocity : Velocities]
    \cup [status : {"kNoteOff"}, note : {60}, velocity : {0}]

EnvInit ==
  /\ mVoices = [v \in VoiceIdx |-> VoiceSetSampleRate(VoiceInit, 500)]
  /\ mVoiceCount = 1
  /\ mSampleRate = 500
  /\ mAttack \in AttackMs
  /\ mDecay \in DecayMs
  /\ mSustain \in SustainLevels
  /\ mRelease \in ReleaseMs
  /\ mWaveform = "kSine"
  /\ mScale = 0
  /\ mTimbreShift = 0
  /\ mWarmth = <<3, 5>>
  /\ mFilterCutoff = 20000
  /\ mFilterResonance = <<0, 1>>
  /\ EffectsAt(500)
  /\ probe = NoProbe(FALSE)
  /\ last = NoCall
  /\ scn = 0
  /\ drain = [on |-> FALSE, rel |-> {}]

EnvNext ==
  \/ \E msg \in EnvMsgs : ProcessMidiMsg(msg)
  \/ \E nFrames \in 0 .. MaxFrames : ProcessBlock(nFrames)
  \/ \E value \in AttackMs : SetAttack(value)
  \/ \E value \in DecayMs : SetDecay(value)
  \/ \E value \in SustainLevels : SetSustain(value)
  \/ \E value \in ReleaseMs : SetReleaseTime(value)

EnvSpec == EnvInit /\ [][EnvNext]_vars

---------------------------------------------------------------------------
(* The host that, from some point on, only calls ProcessBlock with a       *)
(* positive frame count: the audio thread keeps calling it                 *)

LiveMsgs ==
  [status : {"kNoteOn"}, note : {60}, velocity : {100}]
    \cup [status : {"kNoteOff"}, note : {60}, velocity : {0}]
LiveCounts == {1, kMaxVoices}

LiveInit ==
  /\ mVoices = [v \in VoiceIdx |-> VoiceSetSampleRate(VoiceInit, 1000)]
  /\ mVoiceCount \in LiveCounts
  /\ mSampleRate = 1000
  /\ mAttack = 1
  /\ mDecay = 1
  /\ mSustain = <<1, 2>>
  /\ mRelease = 1
  /\ mWaveform = "kSine"
  /\ mScale = 0
  /\ mTimbreShift = 0
  /\ mWarmth = <<3, 5>>
  /\ mFilterCutoff = 20000
  /\ mFilterResonance = <<0, 1>>
  /\ EffectsInit
  /\ probe = NoProbe(FALSE)
  /\ last = NoCall
  /\ scn = 0
  /\ drain = [on |-> FALSE, rel |-> {}]

\* The last message has been handled; drain.rel are the voices in release.
StartDrain ==
  /\ ~drain.on
  /\ drain' = [on |-> TRUE,
               rel |-> {v \in VoiceIdx : mVoices[v].mEnvelope.mStage = "kRelease"}]
  /\ last' = [op |-> "drain", note |-> -1, arg |-> -1, voice |-> -1]
  /\ UNCHANGED <<mVoices, engine, lfos, delay, reverb, randState, modulation, probe, scn>>

DrainBlock == drain.on /\ \E nFrames \in 1 .. MaxFrames : ProcessBlock(nFrames)

LiveNext ==
  \/ ~drain.on /\ \E msg \in LiveMsgs : ProcessMidiMsg(msg)
  \/ ~drain.on /\ \E nFrames \in 1 .. MaxFrames : ProcessBlock(nFrames)
  \/ ~drain.on /\ \E count \in LiveCounts : SetVoiceCount(count)
  \/ StartDrain
  \/ DrainBlock

LiveSpec == LiveInit /\ [][LiveNext]_vars /\ WF_vars(DrainBlock)

---------------------------------------------------------------------------
(* Tuning and waveform selection while a note sounds: the enum setters     *)
(* with indices inside and outside their ranges                            *)

ScaleIndices == {-1, 0, 5, kNumScales}
WaveformIndices == {-1, 3, kNumWaveforms}
LFOWaveformIndices == {-1, 5, kNumLFOWaveforms}
TimbreShifts == {0, 50}
TuneMsgs ==
  [status : {"kNoteOn"}, note : {62}, velocity : {100}]
    \cup [status : {"kNoteOff"}, note : {62}, velocity : {0}]

TuneInit ==
  /\ mVoices = [v \in VoiceIdx |-> VoiceSetSampleRate(VoiceInit, 1000)]
  /\ mVoiceCount = 1
  /\ mSampleRate = 1000
  /\ mAttack = 1
  /\ mDecay = 1
  /\ mSustain = <<1, 1>>
  /\ mRelease = 1
  /\ mWaveform = "kSine"
  /\ mScale = 0
  /\ mTimbreShift = 0
  /\ mWarmth = <<3, 5>>
  /\ mFilterCutoff = 20000
  /\ mFilterResonance = <<0, 1>>
  /\ EffectsInit
  /\ probe = NoProbe(FALSE)
  /\ last = NoCall
  /\ scn = 0
  /\ drain = [on |-> FALSE, rel |-> {}]

TuneNext ==
  \/ \E msg \in TuneMsgs : ProcessMidiMsg(msg)
  \/ \E nFrames \in 1 .. MaxFrames : ProcessBlock(nFrames)
  \/ \E scale \in ScaleIndices : SetScale(scale)
  \/ \E wf \in WaveformIndices : SetWaveform(wf)
  \/ \E wf \in LFOWaveformIndices : SetLFO1Waveform(wf)
  \/ \E wf \in LFOWaveformIndices : SetLFO2Waveform(wf)
  \/ \E value \in TimbreShifts : SetTimbreShift(value)

TuneSpec == TuneInit /\ [][TuneNext]_vars

---------------------------------------------------------------------------
(* The delay line: silent voices, every delay setting, an input that is    *)
(* on or off for a block                                                   *)

\* Delay times in ms; at 1000 samples per second 1 ms is one sample.  The
\* setter takes any double: -1 is below, 5 above what a buffer holds.
DelayTimes == {-1, 0, 1, 2, 5}
DelayFeedbacks == {<<0, 1>>, <<1, 2>>}
DelayMixes == {<<0, 1>>, <<1, 2>>, <<1, 1>>}
DrySamples == {<<0, 1>>, <<1, 1>>}
Garbage == {<<0, 1>>, <<1, 1>>}

DelayInit ==
  /\ mVoices = [v \in VoiceIdx |-> VoiceSetSampleRate(VoiceInit, 1000)]
  /\ mVoiceCount = 1
  /\ mSampleRate = 1000
  /\ mAttack = 1
  /\ mDecay = 1
  /\ mSustain = <<1, 1>>
  /\ mRelease = 1
  /\ mWaveform = "kSine"
  /\ mScale = 0
  /\ mTimbreShift = 0
  /\ mWarmth = <<3, 5>>
  /\ mFilterCutoff = 20000
  /\ mFilterResonance = <<0, 1>>
  /\ mLFO1 = LFOReset(LFOSetRate(LFOSetSampleRate(LFOInit, 1000), mLFO1Rate))
  /\ mLFO2 = LFOReset(LFOSetRate(LFOSetSampleRate(LFOInit, 1000), mLFO2Rate))
  /\ mReverbMix = <<0, 1>>
  /\ mReverbL = ReverbReset
  /\ mReverbR = ReverbReset
  /\ randState = 0
  /\ mDelayTime \in DelayTimes
  /\ mDelayFeedback \in DelayFeedbacks
  /\ mDelayMix \in DelayMixes
  /\ mDelayBufferL = [i \in DelayIdx |-> <<0, 1>>]
  /\ mDelayBufferR = [i \in DelayIdx |-> <<0, 1>>]
  /\ mDelayWritePos = 0
  /\ mModSlots = DefaultModulations
  /\ mModWheelValue = <<0, 1>>
  /\ probe = NoProbe(TRUE)
  /\ last = NoCall
  /\ scn = 0
  /\ drain = [on |-> FALSE, rel |-> {}]

DelayBlock(nFrames, dry, garbage) ==
  /\ probe.n < MaxBlocks
  /\ ProcessBlockOf(nFrames, <<0, 1>>, <<0, 1>>, dry, garbage)

DelayNext ==
  \/ \E nFrames \in 0 .. MaxFrames, dry \in DrySamples, garbage \in Garbage :
        DelayBlock(nFrames, dry, garbage)
  \/ \E value \in DelayTimes : SetDelayTime(value)
  \/ \E value \in DelayFeedbacks : SetDelayFeedback(value)
  \/ \E value \in DelayMixes : SetDelayMix(value)

DelaySpec == DelayInit /\ [][DelayNext]_vars

---------------------------------------------------------------------------
(* The modulation matrix: the two slots reserved for user routing drawn    *)
(* from every kind of routing, the mod wheel moved by control changes      *)

ModSlotChoices ==
  [source : {"kNone", "kLFO1", "kModWheel"},
   dest : {"kNone", "kPitch", "kFilterCutoff"},
   depth : {<<1, 2>>, <<-1, 1>>},
   enabled : BOOLEAN]
LFO1Values == {<<-1, 1>>, <<1, 2>>}
LFO2Values == {<<1, 1>>}
ControlChanges ==
  [status : {"kControlChange"}, note : {1, 7}, velocity : {0, 127}]

ModInit ==
  /\ mVoices = [v \in VoiceIdx |-> VoiceSetSampleRate(VoiceInit, 1000)]
  /\ mVoiceCount = 1
  /\ mSampleRate = 1000
  /\ mAttack = 1
  /\ mDecay = 1
  /\ mSustain = <<1, 1>>
  /\ mRelease = 1
  /\ mWaveform = "kSine"
  /\ mScale = 0
  /\ mTimbreShift = 0
  /\ mWarmth = <<3, 5>>
  /\ mFilterCutoff = 20000
  /\ mFilterResonance = <<0, 1>>
  /\ mLFO1 = LFOReset(LFOSetRate(LFOSetSampleRate(LFOInit, 1000), mLFO1Rate))
  /\ mLFO2 = LFOReset(LFOSetRate(LFOSetSampleRate(LFOInit, 1000), mLFO2Rate))
  /\ mReverbMix = <<0, 1>>
  /\ mReverbL = ReverbReset
  /\ mReverbR = ReverbReset
  /\ randState = 0
  /\ mDelayTime = 250
  /\ mDelayFeedback = <<3, 10>>
  /\ mDelayMix = <<0, 1>>
  /\ mDelayBufferL = [i \in DelayIdx |-> <<0, 1>>]
  /\ mDelayBufferR = [i \in DelayIdx |-> <<0, 1>>]
  /\ mDelayWritePos = 0
  /\ \E seventh, eighth \in ModSlotChoices :
        mModSlots = [DefaultModulations EXCEPT ![7] = seventh, ![8] = eighth]
  /\ mModWheelValue = <<0, 1>>
  /\ probe = NoProbe(TRUE)
  /\ last = NoCall
  /\ scn = 0
  /\ drain = [on |-> FALSE, rel |-> {}]

ModBlock(lfo1, lfo2) ==
  /\ probe.n < MaxBlocks
  /\ ProcessBlockOf(1, lfo1, lfo2, <<0, 1>>, <<0, 1>>)

ModNext ==
  \/ \E lfo1 \in LFO1Values, lfo2 \in LFO2Values : ModBlock(lfo1, lfo2)
  \/ \E msg \in ControlChanges : ProcessMidiMsg(msg)

ModSpec == ModInit /\ [][ModNext]_vars

---------------------------------------------------------------------------
(* Reset: the engine from its construction on, with notes, blocks whose    *)
(* LFOs run and whose effects are mixed in, and Reset at any sample rate   *)

\* Sample rates Reset is called with; at 4 samples per second the LFOs of
\* 1 Hz and 2 Hz move by quarter turns.
ResetRates == {-4, 0, 4}
ResetMsgs ==
  [status : {"kNoteOn"}, note : {60}, velocity : {100}]
    \cup [status : {"kNoteOff"}, note : {60}, velocity : {0}]

\* The engine as constructed: the member initialisers of the header and the
\* modulation table of default-constructed slots, with one voice and
\* envelope times of 1 ms set by the host.  The host calls OnReset, and with it Reset,
\* before it sends a message or asks for a block.
ResetInit ==
  /\ mVoices = [v \in VoiceIdx |-> VoiceInit]
  /\ mVoiceCount = 1
  /\ mSampleRate = 44100
  /\ mAttack = 1
  /\ mDecay = 1
  /\ mSustain = <<7, 10>>
  /\ mRelease = 1
  /\ mWaveform = "kSine"
  /\ mScale = 0
  /\ mTimbreShift = 0
  /\ mWarmth = <<3, 5>>
  /\ mFilterCutoff = 20000
  /\ mFilterResonance = <<0, 1>>
  /\ mLFO1 = LFOInit
  /\ mLFO2 = LFOInit
  /\ mDelayTime = 250
  /\ mDelayFeedback = <<3, 10>>
  /\ mDelayMix = <<1, 5>>
  /\ mDelayBufferL = [i \in DelayIdx |-> <<0, 1>>]
  /\ mDelayBufferR = [i \in DelayIdx |-> <<0, 1>>]
  /\ mDelayWritePos = 0
  /\ mReverbMix = <<3, 10>>
  /\ mReverbL = ReverbReset
  /\ mReverbR = ReverbReset
  /\ randState = 0
  /\ mModSlots = [i \in 1 .. kNumModSlots |-> EmptySlot]
  /\ mModWheelValue = <<0, 1>>
  /\ probe = NoProbe(TRUE)
  /\ last = NoCall
  /\ scn = 0
  /\ drain = [on |-> FALSE, rel |-> {}]

HostReady == last.op # "none"

ResetMidi(msg) == HostReady /\ ProcessMidiMsg(msg)

\* A block at a positive sample rate, the voices adding 1 to every sample.
ResetBlock(nFrames) ==
  /\ HostReady
  /\ probe.n < MaxBlocks
  /\ mSampleRate > 0
  /\ ProcessBlockWith([nFrames |-> nFrames, follow |-> TRUE, lfo1 |-> <<0, 1>>,
                       lfo2 |-> <<0, 1>>, voiced |-> <<1, 1>>, controls |-> Unity,
                       garbage |-> <<0, 1>>, prior |-> <<0, 1>>])

ResetNext ==
  \/ \E msg \in ResetMsgs : ResetMidi(msg)
  \/ \E nFrames \in 1 .. MaxFrames : ResetBlock(nFrames)
  \/ \E sampleRate \in ResetRates : Reset(sampleRate)

ResetSpec == ResetInit /\ [][ResetNext]_vars

---------------------------------------------------------------------------
(* The LFOs followed through their phases: the engine after Reset at 4     *)
(* samples per second, where LFO1 (1 Hz) moves a quarter turn and LFO2     *)
(* (2 Hz) a half turn per call; the host sets their waveforms; a second    *)
(* processor instance runs in the same process                             *)

\* The waveform numbers the host sends: no waveform, sine, square, sample
\* and hold, one past the last.
WaveformInts == {-1, 0, 4, 5, kNumLFOWaveforms}

LfoInit ==
  /\ mVoices = [v \in VoiceIdx |-> VoiceSetSampleRate(VoiceInit, 4)]
  /\ mVoiceCount = 1
  /\ mSampleRate = 4
  /\ mAttack = 1
  /\ mDecay = 1
  /\ mSustain = <<1, 1>>
  /\ mRelease = 1
  /\ mWaveform = "kSine"
  /\ mScale = 0
  /\ mTimbreShift = 0
  /\ mWarmth = <<3, 5>>
  /\ mFilterCutoff = 20000
  /\ mFilterResonance = <<0, 1>>
  /\ EffectsAt(4)
  /\ probe = NoProbe(TRUE)
  /\ last = NoCall
  /\ scn = 0
  /\ drain = [on |-> FALSE, rel |-> {}]

\* A block that runs the LFOs from their state.
LfoBlock(nFrames) ==
  /\ probe.n < MaxBlocks
  /\ ProcessBlockWith([nFrames |-> nFrames, follow |-> TRUE, lfo1 |-> <<0, 1>>,
                       lfo2 |-> <<0, 1>>, voiced |-> <<0, 1>>, controls |-> Unity,
                       garbage |-> <<0, 1>>, prior |-> <<0, 1>>])

\* The sample-and-hold LFO of another processor instance of the process
\* wraps during one of that instance's blocks: it calls rand().  Of this
\* instance nothing is touched.
OtherInstanceBlock ==
  /\ randState' = NextRand(randState)
  /\ last' = [op |-> "OtherInstance", note |-> -1, arg |-> -1, voice |-> -1]
  /\ UNCHANGED <<mVoices, engine, lfos, delay, reverb, modulation, probe, scn,
                 drain>>

\* The note-on of the fresh voice.
LfoNoteOn ==
  /\ mVoices[0].mNote = -1
  /\ ProcessMidiMsg([status |-> "kNoteOn", note |-> 60, velocity |-> 100])

LfoNext ==
  \/ \E wf \in WaveformInts : SetLFO1Waveform(wf)
  \/ \E wf \in WaveformInts : SetLFO2Waveform(wf)
  \/ \E nFrames \in 1 .. MaxFrames : LfoBlock(nFrames)
  \/ LfoNoteOn
  \/ OtherInstanceBlock

LfoSpec == LfoInit /\ [][LfoNext]_vars

---------------------------------------------------------------------------
(* The sample-and-hold LFO over more than one cycle: the engine of LfoSpec, *)
(* one block more than a cycle of LFO2 takes, and Reset                     *)

\* Square, and sample and hold.
HoldWaveforms == {4, 5}

HoldBlock(nFrames) ==
  /\ probe.n < MaxBlocks + 1
  /\ ProcessBlockWith([nFrames |-> nFrames, follow |-> TRUE, lfo1 |-> <<0, 1>>,
                       lfo2 |-> <<0, 1>>, voiced |-> <<0, 1>>, controls |-> Unity,
                       garbage |-> <<0, 1>>, prior |-> <<0, 1>>])

HoldNext ==
  \/ \E wf \in HoldWaveforms : SetLFO1Waveform(wf)
  \/ \E wf \in HoldWaveforms : SetLFO2Waveform(wf)
  \/ \E nFrames \in 1 .. MaxFrames : HoldBlock(nFrames)
  \/ Reset(mSampleRate)
  \/ OtherInstanceBlock

HoldSpec == LfoInit /\ [][HoldNext]_vars

---------------------------------------------------------------------------
(* The envelope at the ends of its parameters: one voice whose attack,     *)
(* decay and release have no length or some, and whose sustain level is 0, *)
(* 1 or in between                                                         *)

\* At 500 samples per second: 0 samples, half a sample, 2.5 samples; the
\* release is of 1.5 samples at most, so that a release of a release of a
\* release ... dies out within a few samples.
EdgeMs == {0, 1, 5}
EdgeReleaseMs == {0, 1, 3}
EdgeSustainLevels == {<<0, 1>>, <<1, 2>>, <<1, 1>>}

EdgeInit ==
  /\ mVoices = [v \in VoiceIdx |-> VoiceSetSampleRate(VoiceInit, 500)]
  /\ mVoiceCount = 1
  /\ mSampleRate = 500
  /\ mAttack \in EdgeMs
  /\ mDecay \in EdgeMs
  /\ mSustain \in EdgeSustainLevels
  /\ mRelease \in EdgeReleaseMs
  /\ mWaveform = "kSine"
  /\ mScale = 0
  /\ mTimbreShift = 0
  /\ mWarmth = <<3, 5>>
  /\ mFilterCutoff = 20000
  /\ mFilterResonance = <<0, 1>>
  /\ EffectsAt(500)
  /\ probe = NoProbe(FALSE)
  /\ last = NoCall
  /\ scn = 0
  /\ drain = [on |-> FALSE, rel |-> {}]

EdgeNext ==
  \/ \E msg \in EnvMsgs : ProcessMidiMsg(msg)
  \/ \E nFrames \in 0 .. MaxFrames : ProcessBlock(nFrames)

EdgeSpec == EdgeInit /\ [][EdgeNext]_vars

---------------------------------------------------------------------------
(* The delay write position: delay buffers of a length the position does   *)
(* not divide into, blocks of any frame count, the delay mixed in or out,  *)
(* and Reset                                                               *)

\* The buffers here are two samples longer than those of the other runs,
\* so that two channels per block take the position through every index.
CursorIdx == 0 .. (kMaxDelayBufferSize + 1)
CursorMixes == {<<0, 1>>, <<1, 2>>}

CursorInit ==
  /\ mVoices = [v \in VoiceIdx |-> VoiceSetSampleRate(VoiceInit, 1000)]
  /\ mVoiceCount = 1
  /\ mSampleRate = 1000
  /\ mAttack = 1
  /\ mDecay = 1
  /\ mSustain = <<1, 1>>
  /\ mRelease = 1
  /\ mWaveform = "kSine"
  /\ mScale = 0
  /\ mTimbreShift = 0
  /\ mWarmth = <<3, 5>>
  /\ mFilterCutoff = 20000
  /\ mFilterResonance = <<0, 1>>
  /\ mLFO1 = LFOReset(LFOSetRate(LFOSetSampleRate(LFOInit, 1000), mLFO1Rate))
  /\ mLFO2 = LFOReset(LFOSetRate(LFOSetSampleRate(LFOInit, 1000), mLFO2Rate))
  /\ mReverbMix = <<0, 1>>
  /\ mReverbL = ReverbReset
  /\ mReverbR = ReverbReset
  /\ randState = 0
  /\ mDelayTime = 1
  /\ mDelayFeedback = <<0, 1>>
  /\ mDelayMix \in CursorMixes
  /\ mDelayBufferL = [i \in CursorIdx |-> <<0, 1>>]
  /\ mDelayBufferR = [i \in CursorIdx |-> <<0, 1>>]
  /\ mDelayWritePos = 0
  /\ mModSlots = DefaultModulations
  /\ mModWheelValue = <<0, 1>>
  /\ probe = NoProbe(TRUE)
  /\ last = NoCall
  /\ scn = 0
  /\ drain = [on |-> FALSE, rel |-> {}]

CursorBlock(nFrames) ==
  /\ probe.n < MaxBlocks + 1
  /\ ProcessBlockOf(nFrames, <<0, 1>>, <<0, 1>>, <<1, 1>>, <<0, 1>>)

CursorNext ==
  \/ \E nFrames \in 0 .. MaxFrames : CursorBlock(nFrames)
  \/ \E value \in CursorMixes : SetDelayMix(value)
  \/ Reset(mSampleRate)

CursorSpec == CursorInit /\ [][CursorNext]_vars

---------------------------------------------------------------------------
(* The voice count: the engine of Init with any voice count, negative      *)
(* ones included                                                           *)

CountValues == {-1, 0, 1, kMaxVoices, kMaxVoices + 1}
CountMsgs ==
  [status : {"kNoteOn"}, note : {60}, velocity : Velocities]
    \cup [status : {"kNoteOff"}, note : {60}, velocity : {0}]

CountNext ==
  \/ \E msg \in CountMsgs : ProcessMidiMsg(msg)
  \/ \E nFrames \in 1 .. MaxFrames : ProcessBlock(nFrames)
  \/ \E count \in CountValues : SetVoiceCount(count)

CountSpec == Init /\ [][CountNext]_vars

---------------------------------------------------------------------------
(* The voice filters: notes on every voice, blocks whose LFO values are    *)
(* given, the base cutoff and resonance set between them, and routings to  *)
(* both filter destinations                                                *)

\* A cutoff and a resonance of the parameter ranges (CelestialSynth.cpp:16-17)
\* other than the defaults.
FilterCutoffs == {1000}
FilterResonances == {<<1, 2>>}
\* LFO values that, with the routings below, modulate the resonance above 1,
\* below 0 and in between, and the cutoff up, down and not at all.
FilterLFOValues == {<<-1, 1>>, <<0, 1>>, <<1, 2>>}
FilterMsgs ==
  [status : {"kNoteOn"}, note : {60}, velocity : {100}]
    \cup [status : {"kNoteOff"}, note : {60}, velocity : {0}]

VoiceFilterInit ==
  /\ mVoices = [v \in VoiceIdx |-> VoiceSetSampleRate(VoiceInit, 1000)]
  /\ mVoiceCount = kMaxVoices
  /\ mSampleRate = 1000
  /\ mAttack = 1
  /\ mDecay = 1
  /\ mSustain = <<1, 1>>
  /\ mRelease = 1
  /\ mWaveform = "kSine"
  /\ mScale = 0
  /\ mTimbreShift = 0
  /\ mWarmth = <<3, 5>>
  /\ mFilterCutoff = 20000
  /\ mFilterResonance = <<0, 1>>
  /\ mLFO1 = LFOReset(LFOSetRate(LFOSetSampleRate(LFOInit, 1000), mLFO1Rate))
  /\ mLFO2 = LFOReset(LFOSetRate(LFOSetSampleRate(LFOInit, 1000), mLFO2Rate))
  /\ mReverbMix = <<0, 1>>
  /\ mReverbL = ReverbReset
  /\ mReverbR = ReverbReset
  /\ randState = 0
  /\ mDelayTime = 250
  /\ mDelayFeedback = <<3, 10>>
  /\ mDelayMix = <<0, 1>>
  /\ mDelayBufferL = [i \in DelayIdx |-> <<0, 1>>]
  /\ mDelayBufferR = [i \in DelayIdx |-> <<0, 1>>]
  /\ mDelayWritePos = 0
  /\ mModSlots =
       [DefaultModulations EXCEPT
          ![7] = ModulationSlot("kLFO1", "kFilterRes", <<1, 1>>, TRUE),
          ![8] = ModulationSlot("kLFO1", "kFilterRes", <<1, 2>>, TRUE)]
  /\ mModWheelValue = <<0, 1>>
  /\ probe = NoProbe(TRUE)
  /\ last = NoCall
  /\ scn = 0
  /\ drain = [on |-> FALSE, rel |-> {}]

VoiceFilterBlock(lfo1) ==
  /\ probe.n < MaxBlocks
  /\ ProcessBlockOf(1, lfo1, <<0, 1>>, <<0, 1>>, <<0, 1>>)

VoiceFilterNext ==
  \/ \E msg \in FilterMsgs : ProcessMidiMsg(msg)
  \/ \E lfo1 \in FilterLFOValues : VoiceFilterBlock(lfo1)
  \/ SetVoiceCount(1)
  \/ \E hz \in FilterCutoffs : SetFilterCutoff(hz)
  \/ \E res \in FilterResonances : SetFilterResonance(res)

VoiceFilterSpec == VoiceFilterInit /\ [][VoiceFilterNext]_vars

---------------------------------------------------------------------------
(* The output buffers: blocks into buffers the caller left with anything   *)
(* in them, the delay and the reverb on, the controls at rest or not       *)

\* What the caller left in every output sample, what the busy voices add.
Priors == {<<0, 1>>, <<1, 1>>}
VoicedSamples == {<<0, 1>>, <<1, 1>>}

OutputInit ==
  /\ mVoices = [v \in VoiceIdx |-> VoiceSetSampleRate(VoiceInit, 4)]
  /\ mVoiceCount = 1
  /\ mSampleRate = 4
  /\ mAttack = 1
  /\ mDecay = 1
  /\ mSustain = <<1, 1>>
  /\ mRelease = 1
  /\ mWaveform = "kSine"
  /\ mScale = 0
  /\ mTimbreShift = 0
  /\ mWarmth = <<3, 5>>
  /\ mFilterCutoff = 20000
  /\ mFilterResonance = <<0, 1>>
  /\ mLFO1 = LFOReset(LFOSetRate(LFOSetSampleRate(LFOInit, 4), mLFO1Rate))
  /\ mLFO2 = LFOReset(LFOSetRate(LFOSetSampleRate(LFOInit, 4), mLFO2Rate))
  /\ mReverbMix = <<3, 10>>
  /\ mReverbL = ReverbReset
  /\ mReverbR = ReverbReset
  /\ randState = 0
  /\ mDelayTime = 250
  /\ mDelayFeedback = <<3, 10>>
  /\ mDelayMix = <<1, 5>>
  /\ mDelayBufferL = [i \in DelayIdx |-> <<0, 1>>]
  /\ mDelayBufferR = [i \in DelayIdx |-> <<0, 1>>]
  /\ mDelayWritePos = 0
  /\ mModSlots = DefaultModulations
  /\ mModWheelValue = <<0, 1>>
  /\ probe = NoProbe(TRUE)
  /\ last = NoCall
  /\ scn = 0
  /\ drain = [on |-> FALSE, rel |-> {}]

\* What a block is given besides the engine's state.
BlockInput(nFrames, prior, voiced, controls) ==
  [nFrames |-> nFrames, follow |-> TRUE, lfo1 |-> <<0, 1>>, lfo2 |-> <<0, 1>>,
   voiced |-> voiced, controls |-> controls, garbage |-> <<0, 1>>,
   prior |-> prior]

\* The blocks of a behaviour are counted, for the state space to be finite.
OutputBlockReady == probe.n < MaxBlocks - 1

OutputBlock(nFrames, prior, voiced, controls) ==
  /\ OutputBlockReady
  /\ ProcessBlockWith(BlockInput(nFrames, prior, voiced, controls))

OutputNoteOn ==
  /\ mVoices[0].mNote = -1
  /\ ProcessMidiMsg([status |-> "kNoteOn", note |-> 60, velocity |-> 100])

OutputNext ==
  \/ \E nFrames \in 1 .. MaxFrames, prior \in Priors, voiced \in VoicedSamples,
        controls \in ControlCurves :
        OutputBlock(nFrames, prior, voiced, controls)
  \/ OutputNoteOn

OutputSpec == OutputInit /\ [][OutputNext]_vars

---------------------------------------------------------------------------
(* The scale system: every MIDI note under every scale, one voice that     *)
(* plays one note from its note-on to the end of its release               *)

MidiNotes == 0 .. 127
Scales == 0 .. (kNumScales - 1)

ScaleInit ==
  /\ mVoices = [v \in VoiceIdx |-> VoiceSetSampleRate(VoiceInit, 1000)]
  /\ mVoiceCount = 1
  /\ mSampleRate = 1000
  /\ mAttack = 1
  /\ mDecay = 1
  /\ mSustain = <<1, 1>>
  /\ mRelease = 1
  /\ mWaveform = "kSine"
  /\ mScale \in Scales
  /\ mTimbreShift = 0
  /\ mWarmth = <<3, 5>>
  /\ mFilterCutoff = 20000
  /\ mFilterResonance = <<0, 1>>
  /\ EffectsInit
  /\ probe = NoProbe(FALSE)
  /\ last = NoCall
  /\ scn = 0
  /\ drain = [on |-> FALSE, rel |-> {}]

\* The note-on of the fresh voice, the note-off of the note it holds.
ScaleNoteOn(note) ==
  /\ mVoices[0].mNote = -1
  /\ ProcessMidiMsg([status |-> "kNoteOn", note |-> note, velocity |-> 100])

ScaleNoteOff ==
  /\ GetBusy(mVoices[0])
  /\ ProcessMidiMsg([status |-> "kNoteOff", note |-> mVoices[0].mNote, velocity |-> 0])

ScaleNext ==
  \/ \E note \in MidiNotes : ScaleNoteOn(note)
  \/ ScaleNoteOff
  \/ \E nFrames \in 1 .. MaxFrames : ProcessBlock(nFrames)

ScaleSpec == ScaleInit /\ [][ScaleNext]_vars

---------------------------------------------------------------------------
(* The oscillator phase: every MIDI note under every scale, one voice with  *)
(* the sawtooth waveform                                                   *)

\* The host's sample rate: the one at which the increment of the base
\* frequency, 261.6256 / 40879, is the short fraction 4 / 625.  (At 44100
\* it is 40879 / 6890625 and the same notes pass the sample rate.)
OscSampleRate == 40879

OscInit ==
  /\ mVoices = [v \in VoiceIdx |-> VoiceSetSampleRate(VoiceInit, OscSampleRate)]
  /\ mVoiceCount = 1
  /\ mSampleRate = OscSampleRate
  /\ mAttack = 1
  /\ mDecay = 1
  /\ mSustain = <<1, 1>>
  /\ mRelease = 1
  /\ mWaveform = "kSaw"
  /\ mScale \in Scales
  /\ mTimbreShift = 0
  /\ mWarmth = <<3, 5>>
  /\ mFilterCutoff = 20000
  /\ mFilterResonance = <<0, 1>>
  /\ mLFO1 = [LFOReset(LFOSetRate(LFOSetSampleRate(LFOInit, OscSampleRate), mLFO1Rate))
                EXCEPT !.mWaveform = "kSquare"]
  /\ mLFO2 = [LFOReset(LFOSetRate(LFOSetSampleRate(LFOInit, OscSampleRate), mLFO2Rate))
                EXCEPT !.mWaveform = "kSquare"]
  /\ mReverbMix = <<0, 1>>
  /\ mReverbL = ReverbReset
  /\ mReverbR = ReverbReset
  /\ randState = 0
  /\ mDelayTime = 250
  /\ mDelayFeedback = <<3, 10>>
  /\ mDelayMix = <<0, 1>>
  /\ mDelayBufferL = [i \in DelayIdx |-> <<0, 1>>]
  /\ mDelayBufferR = [i \in DelayIdx |-> <<0, 1>>]
  /\ mDelayWritePos = 0
  /\ mModSlots = DefaultModulations
  /\ mModWheelValue = <<0, 1>>
  /\ probe = NoProbe(TRUE)
  /\ last = NoCall
  /\ scn = 0
  /\ drain = [on |-> FALSE, rel |-> {}]

\* The note-on of the fresh voice.
OscNoteOn(note) ==
  /\ mVoices[0].mNote = -1
  /\ ProcessMidiMsg([status |-> "kNoteOn", note |-> note, velocity |-> 100])

\* A block that runs the oscillators from their state.
OscBlock(nFrames) ==
  /\ probe.n < MaxBlocks
  /\ ProcessBlockWith([nFrames |-> nFrames, follow |-> TRUE, lfo1 |-> <<0, 1>>,
                       lfo2 |-> <<0, 1>>, voiced |-> <<0, 1>>, controls |-> Unity,
                       garbage |-> <<0, 1>>, prior |-> <<0, 1>>])

OscNext ==
  \/ \E note \in MidiNotes : OscNoteOn(note)
  \/ \E nFrames \in 1 .. MaxFrames : OscBlock(nFrames)

OscSpec == OscInit /\ [][OscNext]_vars

---------------------------------------------------------------------------
(* The band-limited waveforms: PolyBLEP and the sawtooth and square outputs *)
(* of GenerateWaveform, for every MIDI note under every scale              *)

\* fmod(x, 1.0) for x >= 0.
Fmod1(x) == RSub(x, RInt(Trunc(x[1], x[2])))

\* The mutation of PolyBLEP that does not bring t back by 1.0 before the
\* second discontinuity.
PolyBLEPNoWrap(t, dt) ==
  IF RLt(t, dt)
    THEN LET x == RDiv(t, dt)
         IN  RSub(RSub(RAdd(x, x), RMul(x, x)), <<1, 1>>)
    ELSE IF RLt(RSub(<<1, 1>>, dt), t)
      THEN LET x == RDiv(t, dt)
           IN  RAdd(RAdd(RAdd(RMul(x, x), x), x), <<1, 1>>)
      ELSE <<0, 1>>

\* PolyBLEP(t, dt): t the phase, dt the phase increment per sample.
PolyBLEP(t, dt) ==
  IF RLt(t, dt)
    THEN LET x == RDiv(t, dt)
         IN  RSub(RSub(RAdd(x, x), RMul(x, x)), <<1, 1>>)
    ELSE IF RLt(RSub(<<1, 1>>, dt), t)
      THEN LET x == RDiv(RSub(t, <<1, 1>>), dt)
           IN  RAdd(RAdd(RAdd(RMul(x, x), x), x), <<1, 1>>)
      ELSE <<0, 1>>

\* (mPhase < 0.5) ? 1.0 : -1.0
NaiveSquare(phase) == IF RLt(phase, <<1, 2>>) THEN <<1, 1>> ELSE <<-1, 1>>

\* The value GenerateWaveform returns for the sawtooth and the square wave,
\* from the phase and the increment it finds.
GenerateWaveform(waveform, phase, increment) ==
  CASE waveform = "kSaw" ->
         RSub(RMul(<<2, 1>>, RSub(phase, <<1, 2>>)), PolyBLEP(phase, increment))
    [] waveform = "kSquare" ->
         RSub(RAdd(NaiveSquare(phase), PolyBLEP(phase, increment)),
              PolyBLEP(Fmod1(RAdd(phase, <<1, 2>>)), increment))

BlepWaveforms == {"kSaw", "kSquare"}

BlepInit ==
  /\ mVoices = [v \in VoiceIdx |-> VoiceSetSampleRate(VoiceInit, OscSampleRate)]
  /\ mVoiceCount = 1
  /\ mSampleRate = OscSampleRate
  /\ mAttack = 1
  /\ mDecay = 1
  /\ mSustain = <<1, 1>>
  /\ mRelease = 1
  /\ mWaveform \in BlepWaveforms
  /\ mScale \in Scales
  /\ mTimbreShift = 0
  /\ mWarmth = <<3, 5>>
  /\ mFilterCutoff = 20000
  /\ mFilterResonance = <<0, 1>>
  /\ mLFO1 = [LFOReset(LFOSetRate(LFOSetSampleRate(LFOInit, OscSampleRate), mLFO1Rate))
                EXCEPT !.mWaveform = "kSquare"]
  /\ mLFO2 = [LFOReset(LFOSetRate(LFOSetSampleRate(LFOInit, OscSampleRate), mLFO2Rate))
                EXCEPT !.mWaveform = "kSquare"]
  /\ mReverbMix = <<0, 1>>
  /\ mReverbL = ReverbReset
  /\ mReverbR = ReverbReset
  /\ randState = 0
  /\ mDelayTime = 250
  /\ mDelayFeedback = <<3, 10>>
  /\ mDelayMix = <<0, 1>>
  /\ mDelayBufferL = [i \in DelayIdx |-> <<0, 1>>]
  /\ mDelayBufferR = [i \in DelayIdx |-> <<0, 1>>]
  /\ mDelayWritePos = 0
  /\ mModSlots = DefaultModulations
  /\ mModWheelValue = <<0, 1>>
  /\ probe = NoProbe(TRUE)
  /\ last = NoCall
  /\ scn = 0
  /\ drain = [on |-> FALSE, rel |-> {}]

\* The note-on of the fresh voice, before the first block.
BlepNoteOn(note) ==
  /\ mVoices[0].mNote = -1
  /\ probe.n = 0
  /\ ProcessMidiMsg([status |-> "kNoteOn", note |-> note, velocity |-> 100])

\* A block that runs the oscillators from their state.
BlepBlock(nFrames) ==
  /\ probe.n < MaxBlocks - 2
  /\ ProcessBlockWith([nFrames |-> nFrames, follow |-> TRUE, lfo1 |-> <<0, 1>>,
                       lfo2 |-> <<0, 1>>, voiced |-> <<0, 1>>, controls |-> Unity,
                       garbage |-> <<0, 1>>, prior |-> <<0, 1>>])

BlepNext ==
  \/ \E note \in MidiNotes : BlepNoteOn(note)
  \/ \E nFrames \in 1 .. MaxFrames : BlepBlock(nFrames)

BlepSpec == BlepInit /\ [][BlepNext]_vars

---------------------------------------------------------------------------
(* Claims about the voice pool, checked under Spec *)

Stage(v) == mVoices[v].mEnvelope.mStage
Busy(v) == Stage(v) # "kIdle"
InRange(v) == v < Min(mVoiceCount, kMaxVoices)

\* The lowest index below min(mVoiceCount, kMaxVoices) of a voice whose
\* envelope is idle, -1 when there is none.
LowestFree ==
  LET free == {v \in VoiceIdx : InRange(v) /\ ~Busy(v)}
  IN  IF free = {} THEN -1 ELSE CHOOSE v \in free : \A w \in free : v <= w

IsNoteOn(call) == call.op = "kNoteOn" /\ call.arg > 0
IsVelocityZero(call) == call.op = "kNoteOn" /\ call.arg = 0
IsNoteOff(call) == call.op = "kNoteOff"

\* C1: a note-on with velocity > 0 claims exactly the lowest-index voice
\* below min(voiceCount, kMaxVoices) that is not busy: that voice gets the
\* note and the velocity, its envelope enters attack and it is busy at once;
\* no other voice changes.
C1_NoteOnClaimsLowestFree ==
  [][ (IsNoteOn(last') /\ LowestFree # -1) =>
        LET v == LowestFree IN
        /\ last'.voice = v
        /\ mVoices'[v].mNote = last'.note
        /\ mVoices'[v].mVelocity = last'.arg
        /\ mVoices'[v].mEnvelope.mStage = "kAttack"
        /\ GetBusy(mVoices'[v])
        /\ \A w \in VoiceIdx \ {v} : mVoices'[w] = mVoices[w] ]_vars

C1_Witness ==
  /\ IsNoteOn(last) /\ last.voice = 1
  /\ Busy(0)
  /\ Stage(1) = "kAttack" /\ mVoices[1].mNote = last.note
  /\ mVoices[1].mEnvelope.mSampleCount = 0

\* C2: when every voice below min(voiceCount, kMaxVoices) is busy, a note-on
\* changes no voice (no stealing) and nothing else of the engine.
C2_NoteOnDroppedWhenFull ==
  [][ (IsNoteOn(last') /\ \A v \in VoiceIdx : InRange(v) => Busy(v)) =>
        /\ mVoices' = mVoices
        /\ last'.voice = -1
        /\ UNCHANGED engine ]_vars

C2_Witness ==
  /\ IsNoteOn(last) /\ last.voice = -1
  /\ mVoiceCount >= 2
  /\ \A v \in VoiceIdx : InRange(v) => Busy(v) /\ mVoices[v].mNote # last.note

\* C3 as stated: a note-off puts every busy voice holding the note into
\* release, wherever it sits in the pool, and changes no other voice.
C3_NoteOffReleasesEveryHolder ==
  [][ IsNoteOff(last') =>
        \A v \in VoiceIdx :
          IF Busy(v) /\ mVoices[v].mNote = last'.note
            THEN mVoices'[v].mEnvelope.mStage = "kRelease"
            ELSE mVoices'[v] = mVoices[v] ]_vars

\* C3 amended: a note-off puts every busy voice below min(voiceCount,
\* kMaxVoices) that holds the note into release (several voices when the
\* note is held more than once), recording its current envelope value as
\* the release start, and changes no other voice.
C3_NoteOffReleasesHoldersInRange ==
  [][ IsNoteOff(last') =>
        \A v \in VoiceIdx :
          IF InRange(v) /\ Busy(v) /\ mVoices[v].mNote = last'.note
            THEN /\ mVoices'[v].mEnvelope.mStage = "kRelease"
                 /\ mVoices'[v].mEnvelope.mReleaseStart =
                      mVoices[v].mEnvelope.mEnvelopeValue
                 /\ mVoices'[v].mNote = mVoices[v].mNote
            ELSE mVoices'[v] = mVoices[v] ]_vars

C3_Witness ==
  /\ IsNoteOff(last)
  /\ \E v, w \in VoiceIdx :
       /\ v # w
       /\ \A x \in {v, w} :
            /\ Stage(x) = "kRelease" /\ mVoices[x].mNote = last.note
            /\ mVoices[x].mEnvelope.mSampleCount = 0
            /\ mVoices[x].mEnvelope.mReleaseStart # <<0, 1>>

\* C4: a note-on with velocity 0 changes the engine exactly as the note-off
\* for the same note would from the same state, and claims no voice.
C4_VelocityZeroIsNoteOff ==
  [][ IsVelocityZero(last') =>
        /\ mVoices' = MidiVoices([status |-> "kNoteOff", note |-> last'.note,
                                  velocity |-> 0])
        /\ last'.voice = -1
        /\ \A v \in VoiceIdx : ~Busy(v) => mVoices'[v] = mVoices[v]
        /\ UNCHANGED engine ]_vars

C4_Witness ==
  /\ IsVelocityZero(last)
  /\ \E v \in VoiceIdx :
       /\ Stage(v) = "kRelease" /\ mVoices[v].mNote = last.note
       /\ mVoices[v].mEnvelope.mSampleCount = 0
  /\ \E v \in VoiceIdx : InRange(v) /\ ~Busy(v)

\* C5: no two busy voices hold the same note.
C5_OneBusyVoicePerNote ==
  \A v, w \in VoiceIdx :
    (v # w /\ Busy(v) /\ Busy(w)) => mVoices[v].mNote # mVoices[w].mNote

\* C6: a voice is busy exactly when its envelope stage is not idle, and a
\* voice with note -1 is not busy.
C6_BusyIffNotIdle ==
  \A v \in VoiceIdx :
    /\ GetBusy(mVoices[v]) <=> Stage(v) \in {"kAttack", "kDecay", "kSustain", "kRelease"}
    /\ mVoices[v].mNote = -1 => ~GetBusy(mVoices[v])

C6_Witness ==
  /\ IsNoteOn(last) /\ last.voice = 0
  /\ GetBusy(mVoices[0]) /\ mVoices[0].mNote = last.note
  /\ InRange(1) /\ ~GetBusy(mVoices[1]) /\ mVoices[1].mNote = -1

\* C7: a voice at or above min(voiceCount, kMaxVoices) is changed by no
\* note-on, no note-off (of either form) and no ProcessBlock, idle or not.
C7_VoicesBeyondCountUntouched ==
  [][ last'.op \in {"kNoteOn", "kNoteOff", "ProcessBlock"} =>
        \A v \in VoiceIdx : ~InRange(v) => mVoices'[v] = mVoices[v] ]_vars

C7_Witness ==
  /\ IsNoteOn(last) /\ last.voice = -1
  /\ mVoiceCount >= 1
  /\ \E v \in VoiceIdx : ~InRange(v) /\ ~Busy(v)

\* C10: with voiceCount = 1, after a note-on 60 that sounds, a note-on 64
\* changes no voice, and so does the note-off 64 after it; and any note-off
\* for a note no busy voice holds changes no voice.
C10_UnheldNoteOffChangesNothing ==
  [][ /\ (scn = 1 /\ scn' = 2) => (mVoices' = mVoices /\ last'.voice = -1)
      /\ (scn = 2 /\ scn' = 3) => mVoices' = mVoices
      /\ (IsNoteOff(last') /\
          \A v \in VoiceIdx : ~(Busy(v) /\ mVoices[v].mNote = last'.note))
            => mVoices' = mVoices ]_vars

C10_Witness ==
  /\ scn = 3
  /\ last = [op |-> "kNoteOff", note |-> 64, arg |-> 0, voice |-> -1]
  /\ mVoiceCount = 1
  /\ Busy(0) /\ mVoices[0].mNote = 60

---------------------------------------------------------------------------
(* Claims about the envelope of a voice, checked under EnvSpec and LiveSpec *)

\* One Process call takes the envelope e to f: the stage stays or moves one
\* stage on, the value does not rise while the stage is release, and an
\* idle envelope is not active.
SampleOK(e, f) ==
  /\ CASE e.mStage = "kAttack" -> f.mStage \in {"kAttack", "kDecay"}
       [] e.mStage = "kDecay" -> f.mStage \in {"kDecay", "kSustain"}
       [] e.mStage = "kSustain" -> f.mStage = "kSustain"
       [] e.mStage = "kRelease" -> f.mStage \in {"kRelease", "kIdle"}
       [] OTHER -> f.mStage = "kIdle"
  /\ e.mStage = "kRelease" => RLe(f.mEnvelopeValue, e.mEnvelopeValue)
  /\ f.mStage = "kIdle" => ~EnvIsActive(f)

\* The envelope of a voice over one step of the engine, where a note-off may
\* move it to release from the stages `from`.
LifecycleStep(v, from) ==
  LET e == mVoices[v].mEnvelope
      f == mVoices'[v].mEnvelope
  IN  CASE last'.op = "ProcessBlock" ->
             IF InRange(v) /\ EnvIsActive(e)
               THEN /\ f = EnvRun(e, last'.arg)
                    /\ \A i \in 0 .. (last'.arg - 1) :
                         SampleOK(EnvRun(e, i), EnvRun(e, i + 1))
               ELSE f = e
        [] last'.op \in {"kNoteOn", "kNoteOff"} ->
             \/ f = e
             \/ /\ IsNoteOn(last') /\ e.mStage = "kIdle" /\ f.mStage = "kAttack"
                /\ f.mEnvelopeValue = <<0, 1>>
             \/ /\ ~IsNoteOn(last') /\ e.mStage \in from /\ f.mStage = "kRelease"
                /\ f.mEnvelopeValue = e.mEnvelopeValue
                /\ f.mReleaseStart = e.mEnvelopeValue
        [] OTHER -> f = e

\* C8 as stated: the stages of a claimed and then released voice are attack,
\* optionally decay, then release, then idle: the release is entered from
\* attack or decay (or again from release); the value never rises from one
\* sample to the next while the stage is release; an idle voice is not busy.
C8_AttackDecayReleaseIdle ==
  [][ \A v \in VoiceIdx :
        /\ LifecycleStep(v, {"kAttack", "kDecay", "kRelease"})
        /\ mVoices'[v].mEnvelope.mStage = "kIdle" => ~GetBusy(mVoices'[v]) ]_vars

\* C8 amended: the stages are attack, optionally decay, optionally sustain
\* (a note-off that comes after the decay finds the voice in sustain), then
\* release, then idle; the value never rises from one sample to the next
\* while the stage is release; an idle voice is not busy.
C8_EnvelopeLifecycle ==
  [][ \A v \in VoiceIdx :
        /\ LifecycleStep(v, {"kAttack", "kDecay", "kSustain", "kRelease"})
        /\ mVoices'[v].mEnvelope.mStage = "kIdle" => ~GetBusy(mVoices'[v]) ]_vars

C8_Witness ==
  /\ last.op = "ProcessBlock"
  /\ Stage(0) = "kIdle" /\ ~GetBusy(mVoices[0]) /\ mVoices[0].mNote = 60
  /\ mVoices[0].mEnvelope.mReleaseStart \notin {<<0, 1>>, <<1, 2>>, <<1, 1>>}
  /\ mVoices[0].mEnvelope.mSampleCount >= 3

\* C9 as stated: once the host only calls ProcessBlock with a positive frame
\* count, every voice in release reaches idle.
C9_ReleaseEnds ==
  \A v \in VoiceIdx :
    (drain.on /\ Stage(v) = "kRelease") ~> (Stage(v) = "kIdle")

\* C9 amended: once the host only calls ProcessBlock with a positive frame
\* count, every voice in release whose index is below min(voiceCount,
\* kMaxVoices) reaches idle, and the note-on scan then takes it as free.
C9_ReleaseEndsInRange ==
  \A v \in VoiceIdx :
    (drain.on /\ Stage(v) = "kRelease" /\ InRange(v))
      ~> (Stage(v) = "kIdle" /\ FindFreeVoice(mVoices, mVoiceCount, v) = v)

C9_Witness ==
  /\ drain.on
  /\ last.op = "ProcessBlock" /\ last.arg > 0
  /\ \E v \in drain.rel :
       /\ InRange(v) /\ Stage(v) = "kIdle"
       /\ mVoices[v].mEnvelope.mReleaseStart # <<0, 1>>
       /\ FindFreeVoice(mVoices, mVoiceCount, v) = v

---------------------------------------------------------------------------
(* The scale system *)

\* The voice a note-on has just claimed.
Claimed == mVoices[last.voice]
NoteOnClaimed(call) == IsNoteOn(call) /\ call.voice >= 0

\* C11: for every note number 0..127 and every scale, the frequency a note-on
\* computes is baseFreq * table[scale][scaleIndex mod 5] * 2^(scaleIndex div 5)
\* with scaleIndex = (note div 12) * 5 + lookup(note mod 12).
C11_FrequencyFormula ==
  NoteOnClaimed(last) =>
    LET scaleIndex == (last.note \div 12) * 5 + mChromaticToScale[(last.note % 12) + 1]
    IN  Claimed.mFrequency.hz =
          Ldexp(RMul(kBaseFreq, mScaleRatios[mScale + 1][(scaleIndex % 5) + 1]),
                scaleIndex \div 5)

\* Note 127 (octave 10, semitone 7) under the Mongolian scale.
C11_Witness ==
  /\ NoteOnClaimed(last) /\ last.note = 127 /\ mScale = 5
  /\ Claimed.mFrequency.hz = Ldexp(RMul(kBaseFreq, <<3, 2>>), 10)

\* C12 as stated: for every scale and every note n with n and n + 60 both in
\* 0..127, the frequency of note n + 60 is twice the frequency of note n.
C12_DoublingOverSixtyNotes ==
  (NoteOnClaimed(last) /\ last.note >= 60) =>
    Claimed.mFrequency.hz =
      FMul(Ldexp(<<2, 1>>, 0), GetFrequencyForMidiNote(mScale, last.note - 60, kBaseFreq))

\* C12: for every scale and every note n with n and n + 12 both in 0..127, the
\* frequency of note n + 12 is twice the frequency of note n; over 60 notes
\* (five octaves) the frequency is multiplied by 32.
C12_DoublingOverTwelveNotes ==
  NoteOnClaimed(last) =>
    /\ last.note >= 12 =>
          Claimed.mFrequency.hz =
            FMul(Ldexp(<<2, 1>>, 0),
                 GetFrequencyForMidiNote(mScale, last.note - 12, kBaseFreq))
    /\ last.note >= 60 =>
          Claimed.mFrequency.hz =
            FMul(Ldexp(<<32, 1>>, 0),
                 GetFrequencyForMidiNote(mScale, last.note - 60, kBaseFreq))

\* Note 74 (D, degree 1) under the Celtic scale, 32 times note 14.
C12_Witness ==
  /\ NoteOnClaimed(last) /\ last.note = 74 /\ mScale = 2
  /\ Claimed.mFrequency.hz = Ldexp(RMul(kBaseFreq, <<9, 8>>), 6)
  /\ GetFrequencyForMidiNote(mScale, 14, kBaseFreq) = Ldexp(RMul(kBaseFreq, <<9, 8>>), 1)

\* C13: with the scale set to index 5, a note-on for note 60 gives the
\* claimed voice the frequency 261.6256 * 6/5 (note 60 resolving to octave 0,
\* degree 1), before any timbre shift.
C13_MiddleCUnderScaleFive ==
  (NoteOnClaimed(last) /\ last.note = 60 /\ mScale = 5) =>
    Claimed.mFrequency.hz = Ldexp(RMul(kBaseFreq, <<6, 5>>), 0)

\* C14: for every note number 0..127 and each of the 9 scales, the frequency
\* computed from the positive base frequency is strictly positive.
C14_FrequencyPositive ==
  NoteOnClaimed(last) =>
    /\ Claimed.mFrequency.hz.m[1] > 0
    /\ Claimed.mFrequency.hz.m[2] > 0

\* Note 0, the lowest frequency of all: the base frequency itself.
C14_Witness ==
  /\ NoteOnClaimed(last) /\ last.note = 0
  /\ Claimed.mFrequency.hz = Ldexp(kBaseFreq, 0)
  /\ RLt(<<0, 1>>, kBaseFreq)

\* C15: the lookup gives a degree in 0..4 for every semitone 0..11, and the
\* degree it gives is, in the layout of the selected scale, the nearest
\* scale degree at or below the semitone, never one above it.
C15_SnapsDown ==
  NoteOnClaimed(last) =>
    LET semitone == last.note % 12
        degree == MapMidiNoteToScaleIndex(last.note) % 5
        layout == ScaleLayout[mScale + 1]
    IN  /\ degree \in 0 .. 4
        /\ layout[degree + 1] <= semitone
        /\ \A d \in 0 .. 4 : layout[d + 1] <= semitone => layout[d + 1] <= layout[degree + 1]

---------------------------------------------------------------------------
(* The setters *)

\* C16: SetScale and SetTimbreShift change the frequency of no voice; a
\* voice's frequency changes only in the note-on that claims it, which
\* computes it from the scale and the timbre shift set by then.
C16_SettersKeepFrequencies ==
  [][ /\ last'.op \in {"SetScale", "SetTimbreShift"} =>
           \A v \in VoiceIdx : mVoices'[v].mFrequency = mVoices[v].mFrequency
      /\ \A v \in VoiceIdx :
           mVoices'[v].mFrequency # mVoices[v].mFrequency =>
             /\ NoteOnClaimed(last') /\ last'.voice = v
             /\ mVoices'[v].mFrequency.hz =
                  GetFrequencyForMidiNote(mScale, last'.note, kBaseFreq)
             /\ mVoices'[v].mFrequency.shift = mTimbreShift ]_vars

\* SetScale(5) while voice 0 sounds note 62 claimed under scale 0.
C16_Witness ==
  /\ last.op = "SetScale" /\ last.arg = 5 /\ mScale = 5
  /\ Busy(0) /\ mVoices[0].mNote = 62
  /\ mVoices[0].mFrequency.hz = GetFrequencyForMidiNote(0, 62, kBaseFreq)
  /\ mVoices[0].mFrequency.hz # GetFrequencyForMidiNote(5, 62, kBaseFreq)

\* C17: SetScale with an index outside 0..8, SetWaveform with an index
\* outside 0..3 and SetLFO1Waveform or SetLFO2Waveform with an index
\* outside 0..5 change nothing: the selected value and all other state stay.
C17_InvalidIndexIsNoOp ==
  [][ ( \/ last'.op = "SetScale" /\ last'.arg \notin 0 .. 8
        \/ last'.op = "SetWaveform" /\ last'.arg \notin 0 .. 3
        \/ last'.op \in {"SetLFO1Waveform", "SetLFO2Waveform"} /\ last'.arg \notin 0 .. 5 )
      => UNCHANGED <<mVoices, engine, lfos, delay, reverb, randState, modulation>> ]_vars

\* SetScale(9) after scale 5, triangle and two sample-and-hold LFOs were
\* selected.
C17_Witness ==
  /\ last.op = "SetScale" /\ last.arg = 9
  /\ mScale = 5 /\ mWaveform = "kTriangle"
  /\ mLFO1.mWaveform = "kRandom" /\ mLFO2.mWaveform = "kRandom"

---------------------------------------------------------------------------
(* The delay line *)

\* The delay stages of the last block that ran: the left and right taps.
Taps == {tap \in {probe.L, probe.R} : probe.on /\ tap.ran}

RAbs(a) == <<Abs(a[1]), a[2]>>

\* C18: for every delay time and sample rate, the delay length and the read
\* index ProcessBlock uses lie in 0 .. kMaxDelayBufferSize - 1.
C18_DelayInBounds ==
  \A tap \in Taps :
    /\ tap.delaySamples \in 0 .. (kMaxDelayBufferSize - 1)
    /\ tap.readPos \in 0 .. (kMaxDelayBufferSize - 1)

\* C19: for feedback in [0, 0.95] and mix in (0.01, 1], once the input has
\* stopped the value written back on a pass is smaller in magnitude than
\* the delayed value it was made from.
C19_TailDecays ==
  \A tap \in Taps :
    ( /\ probe.dry = <<0, 1>>
      /\ tap.readPos \in DelayIdx
      /\ tap.delayed # <<0, 1>> )
    => RLt(RAbs(tap.written), RAbs(tap.delayed))

---------------------------------------------------------------------------
(* The modulation matrix *)

\* A slot that is disabled, or whose source or destination is none.
Inert(slot) == ~slot.enabled \/ slot.source = "kNone" \/ slot.dest = "kNone"

\* The slot table without its i-th slot.
WithoutSlot(i) ==
  SubSeq(mModSlots, 1, i - 1) \o SubSeq(mModSlots, i + 1, Len(mModSlots))

\* C20: a slot that is disabled, or whose source is none, or whose
\* destination is none, adds zero to every destination accumulator: the
\* accumulators of a block are those of the table without the slot, whatever
\* the slot's depth and the source values.
C20_InertSlotAddsZero ==
  (probe.on /\ probe.n > 0) =>
    \A i \in 1 .. Len(mModSlots) :
      Inert(mModSlots[i]) => probe.mod = ModAmounts(WithoutSlot(i), probe.src)

\* A disabled LFO1 -> pitch slot of depth -1 with LFO1 at 1/2, next to an
\* enabled mod wheel -> cutoff slot that adds 1/2 to the 3/20 of the default
\* LFO1 -> cutoff slot.
C20_Witness ==
  /\ probe.on /\ probe.n > 0
  /\ mModSlots[7] = ModulationSlot("kLFO1", "kPitch", <<-1, 1>>, FALSE)
  /\ mModSlots[8] = ModulationSlot("kModWheel", "kFilterCutoff", <<1, 2>>, TRUE)
  /\ probe.src["kLFO1"] = <<1, 2>> /\ probe.src["kModWheel"] = <<1, 1>>
  /\ probe.mod["kPitch"] = <<0, 1>>
  /\ probe.mod["kFilterCutoff"] = RAdd(<<3, 20>>, <<1, 2>>)

\* The sources the block-rate pass evaluates.
BlockRateSources == {"kLFO1", "kLFO2", "kModWheel"}

\* The sum of sourceValue * depth over the enabled slots of slots that lead
\* from a block-rate source to dest.
RECURSIVE BlockRateSum(_, _, _)
BlockRateSum(slots, dest, sourceValues) ==
  IF slots = << >>
    THEN <<0, 1>>
    ELSE LET slot == Head(slots)
             rest == BlockRateSum(Tail(slots), dest, sourceValues)
         IN  IF slot.enabled /\ slot.dest = dest
                  /\ slot.source \in BlockRateSources
               THEN RAdd(rest, RMul(sourceValues[slot.source], slot.depth))
               ELSE rest

\* C21: slots whose source is velocity or the amplitude envelope never
\* contribute to a destination accumulator in the block-rate pass, even when
\* enabled: every accumulator of a block is the sum of sourceValue * depth
\* over the enabled LFO1, LFO2 and mod wheel slots of its destination.
C21_PerVoiceSourcesExcluded ==
  (probe.on /\ probe.n > 0) =>
    \A dest \in ModDestinations \ {"kNone"} :
      probe.mod[dest] = BlockRateSum(mModSlots, dest, probe.src)

\* The enabled default slots amplitude envelope -> cutoff and velocity ->
\* amplitude next to LFO1 at 1/2: amplitude stays at 0 and the cutoff gets
\* the 3/20 of the LFO1 slot alone.
C21_Witness ==
  /\ probe.on /\ probe.n > 0
  /\ mModSlots[4] = ModulationSlot("kAmpEnv", "kFilterCutoff", <<1, 2>>, TRUE)
  /\ mModSlots[5] = ModulationSlot("kVelocity", "kAmplitude", <<1, 2>>, TRUE)
  /\ Inert(mModSlots[7]) /\ Inert(mModSlots[8])
  /\ probe.src["kLFO1"] = <<1, 2>>
  /\ probe.mod["kAmplitude"] = <<0, 1>>
  /\ probe.mod["kFilterCutoff"] = <<3, 20>>

---------------------------------------------------------------------------
(* Control changes *)

\* C26: a control change alters the engine only when its controller is 1,
\* and then the mod wheel value becomes value / 127 and nothing else moves;
\* a control change of any other controller leaves every field as it was.
C26_OnlyControllerOneActs ==
  [][last'.op = "kControlChange" =>
       /\ mModWheelValue' = IF last'.note = 1 THEN Rat(last'.arg, 127)
                                              ELSE mModWheelValue
       /\ UNCHANGED <<mVoices, engine, lfos, delay, reverb, randState, mModSlots>>]_vars

\* Controller 7 at value 0 arriving after controller 1 has set the mod
\* wheel to 127/127.
C26_Witness ==
  /\ last.op = "kControlChange" /\ last.note = 7 /\ last.arg = 0
  /\ mModWheelValue = <<1, 1>>

---------------------------------------------------------------------------
(* Reset *)

\* C22: Reset reinitializes all per-voice state: after Reset, from any prior
\* state, every voice is idle, not busy, with no note sounding.
C22_ResetIdlesVoices ==
  last.op = "Reset" =>
    \A v \in VoiceIdx : Stage(v) = "kIdle" /\ ~Busy(v)

ZeroBuffer(buf) == \A i \in DOMAIN buf : buf[i] = <<0, 1>>

\* Every line of a reverb at zero, every position at 0.
ReverbSilent(rev) ==
  /\ \A i \in Combs : ZeroBuffer(rev.mCombBuffer[i]) /\ rev.mCombPos[i] = 0
  /\ \A i \in Allpasses : ZeroBuffer(rev.mAllpass[i]) /\ rev.mAllpassPos[i] = 0

\* C23: after Reset, from any prior state, both delay buffers are zero with
\* the write position at 0, both reverbs are zero with their positions at 0,
\* both LFO phases are 0 and the modulation table holds the default
\* routings; and only Reset changes the modulation table.
C23_ResetClearsEffects ==
  [][ /\ last'.op = "Reset" =>
           /\ ZeroBuffer(mDelayBufferL') /\ ZeroBuffer(mDelayBufferR')
           /\ mDelayWritePos' = 0
           /\ ReverbSilent(mReverbL') /\ ReverbSilent(mReverbR')
           /\ mLFO1'.mPhase = <<0, 1>> /\ mLFO2'.mPhase = <<0, 1>>
           /\ mModSlots' = DefaultModulations
      /\ mModSlots' # mModSlots => last'.op = "Reset" ]_vars

\* Reset after two blocks at 4 samples per second: the second block found
\* LFO1 a quarter turn on, wrote a sample into the left delay buffer and put
\* one out through the reverb.
C23_Witness ==
  /\ last.op = "Reset"
  /\ probe.n = 2 /\ probe.src["kLFO1"] = <<1, 1>>
  /\ probe.L.ran /\ probe.L.written # <<0, 1>> /\ probe.outL # <<0, 1>>
  /\ ZeroBuffer(mDelayBufferL) /\ ReverbSilent(mReverbL)
  /\ mLFO1.mPhase = <<0, 1>>
  /\ mModSlots = DefaultModulations

\* C24: Reset validates the sample rate: the engine, its LFOs and its voices
\* never hold a sample rate that is zero or negative, so nothing is divided
\* by a zero sample rate.
C24_SampleRateValidated ==
  /\ mSampleRate > 0
  /\ mLFO1.mSampleRate > 0 /\ mLFO1.mPhaseIncrement # Infinity
  /\ mLFO2.mSampleRate > 0 /\ mLFO2.mPhaseIncrement # Infinity
  /\ \A v \in VoiceIdx : mVoices[v].mPhaseIncrement.sr > 0

---------------------------------------------------------------------------
(* The LFOs *)

\* The phase of lfo one increment of rate / sampleRate on, wrapped at 1.
OneIncrementOn(lfo) ==
  LET sum == RAdd(lfo.mPhase, RDiv(lfo.mRateHz, RInt(lfo.mSampleRate)))
  IN  IF RLe(<<1, 1>>, sum) THEN RSub(sum, <<1, 1>>) ELSE sum

\* What the two LFOs and the rest of the sources give the next block.
NextSourceValues ==
  ModSourceValues(LFOProcess(mLFO1, randState).out,
                  LFOProcess(mLFO2, LFOProcess(mLFO1, randState).rand).out)

\* C30: the modulation matrix and both LFOs are evaluated exactly once per
\* ProcessBlock call: a call moves each LFO's phase on by exactly one
\* increment of rate / sampleRate, whatever the frame count and however many
\* voices are busy, and the matrix is summed once over the values the LFOs
\* gave at the phases the call found.
C30_LFOsOncePerBlock ==
  [][ last'.op = "ProcessBlock" =>
        /\ mLFO1'.mPhase = OneIncrementOn(mLFO1)
        /\ mLFO2'.mPhase = OneIncrementOn(mLFO2)
        /\ probe'.n = probe.n + 1
        /\ probe'.src = NextSourceValues
        /\ probe'.mod = ModAmounts(mModSlots, NextSourceValues) ]_vars

\* The first block, of more than one frame and with a busy voice, has moved
\* LFO1 a quarter turn and LFO2 a half turn.
C30_Witness ==
  /\ last.op = "ProcessBlock" /\ last.arg > 1
  /\ probe.n = 1
  /\ Busy(0)
  /\ mLFO1.mPhase = <<1, 4>>
  /\ mLFO2.mPhase = <<1, 2>>

\* C29: no state is shared across processor instances and every operation
\* is deterministic given its inputs: a block of another instance changes
\* neither this instance's state nor what its next block computes, also
\* when an LFO uses the sample-and-hold waveform.
C29_OtherInstanceUnseen ==
  [][ last'.op = "OtherInstance" =>
        /\ UNCHANGED <<mVoices, engine, lfos, delay, reverb, modulation>>
        /\ NextSourceValues' = NextSourceValues ]_vars

---------------------------------------------------------------------------
(* The output buffers *)

\* A block's result without the record of what the caller had left in the
\* buffers.
ForgetPrior(result) == [result EXCEPT !.probe.prior = <<0, 1>>]

\* C25: ProcessBlock fully overwrites the output: two runs from the same
\* engine state that differ only in what the output buffers held before
\* give the same output samples on both channels and the same engine state:
\* from every state a block is run from, whatever the buffers held, the run
\* gives what the run into zeroed buffers gives.
C25_OutputsOverwritten ==
  OutputBlockReady =>
  \A nFrames \in 1 .. MaxFrames, voiced \in VoicedSamples,
     controls \in ControlCurves, prior \in Priors \ {<<0, 1>>} :
     ForgetPrior(BlockResult(BlockInput(nFrames, prior, voiced, controls)))
       = ForgetPrior(BlockResult(BlockInput(nFrames, <<0, 1>>, voiced, controls)))

\* A block into buffers that held 1 in every sample, the voices adding 1:
\* the effects got 1, not 2, and a sample went out.
C25_Witness ==
  /\ last.op = "ProcessBlock"
  /\ probe.prior = <<1, 1>>
  /\ probe.dry = <<1, 1>>
  /\ probe.outL # <<0, 1>> /\ probe.outR # <<0, 1>>

---------------------------------------------------------------------------
(* The oscillator phase *)

\* C27: for every assigned voice with a non-sine waveform the phase, moved
\* on by frequency / sampleRate per sample and wrapped, is in [0, 1) after
\* every sample, for every note 0..127 and every scale.
C27_PhaseInUnitInterval ==
  \A v \in VoiceIdx :
     (mVoices[v].mNote # -1 /\ mVoices[v].mWaveform # "kSine") =>
        /\ RLe(<<0, 1>>, mVoices[v].mPhase)
        /\ RLt(mVoices[v].mPhase, <<1, 1>>)

---------------------------------------------------------------------------
(* The band-limited waveforms *)

\* The phases the check takes for a waveform of increment dt: the quarters
\* of an increment after and before each discontinuity of the waveform (0
\* and 1 for both, 1/2 for the square wave), where PolyBLEP corrects, and
\* the eighths of the cycle that lie clear of the corrections.
BlepQuarters == 0 .. 4
BlepEighths == 0 .. 7
Uncorrected(t, dt) == RLe(dt, t) /\ RLe(t, RSub(<<1, 1>>, dt))
BlepPhases(waveform, dt) ==
  LET steps == {RMul(Rat(j, 4), dt) : j \in BlepQuarters}
      eighths == {Rat(k, 8) : k \in BlepEighths}
      middle == IF waveform = "kSquare"
                  THEN {RAdd(<<1, 2>>, s) : s \in steps}
                         \cup {RSub(<<1, 2>>, s) : s \in steps}
                  ELSE {}
  IN  {t \in eighths : /\ Uncorrected(t, dt)
                       /\ Uncorrected(Fmod1(RAdd(t, <<1, 2>>)), dt)}
        \cup steps
        \cup middle
        \cup {RSub(<<1, 1>>, s) : s \in steps \ {<<0, 1>>}}

InUnitInterval(phase) == RLe(<<0, 1>>, phase) /\ RLt(phase, <<1, 1>>)
\* -3/2 <= n/d <= 3/2, that is 2 * (|n| - d) <= d, without a product of
\* the denominator.
WithinBlepBound(out) ==
  /\ out[1] - out[2] <= out[2] \div 2
  /\ (-out[1]) - out[2] <= out[2] \div 2

\* The voices that sound a sawtooth or a square wave below half the sample
\* rate.
BlepVoice(v) ==
  /\ mVoices[v].mNote # -1
  /\ mVoices[v].mWaveform \in BlepWaveforms
  /\ mVoices[v].mPhaseIncrement.sr > 0
  /\ RLt(<<0, 1>>, IncrementValue(mVoices[v].mPhaseIncrement))
  /\ RLt(IncrementValue(mVoices[v].mPhaseIncrement), <<1, 2>>)

BlepBounded(waveform, phase, dt) ==
  InUnitInterval(phase) => WithinBlepBound(GenerateWaveform(waveform, phase, dt))

\* The phase of the voice itself.  The sawtooth adds a correction, a
\* fraction over the square of the increment's numerator, to 2 * (mPhase -
\* 0.5), a fraction over its denominator; for the highest notes the sum is
\* past the 32-bit integers of TLC, and the corrected part of the sawtooth
\* is taken at the quarters of the increment only.
OwnPhase(waveform, phase, dt) ==
  IF waveform = "kSquare" \/ Uncorrected(phase, dt) THEN {phase} ELSE {}

BlepBoundedAround(waveform, phase, dt) ==
  \A t \in BlepPhases(waveform, dt) \cup OwnPhase(waveform, phase, dt) :
    BlepBounded(waveform, t, dt)

\* C28: for every phase in [0, 1) and every increment below 0.5 the
\* sawtooth and the square output of GenerateWaveform lie within
\* [-1.5, 1.5]: at the phase of every voice that sounds one of them and at
\* the phases around the discontinuities of its increment.
C28_BlepOutputsBounded ==
  \A v \in VoiceIdx :
    BlepVoice(v) =>
      BlepBoundedAround(mVoices[v].mWaveform, mVoices[v].mPhase,
                        IncrementValue(mVoices[v].mPhaseIncrement))

\* A square-wave voice that a block has brought within one increment of the
\* end of its cycle, where the correction of PolyBLEP is not zero.
C28_Witness ==
  /\ last.op = "ProcessBlock"
  /\ BlepVoice(0)
  /\ mVoices[0].mWaveform = "kSquare"
  /\ InUnitInterval(mVoices[0].mPhase)
  /\ RLt(RSub(<<1, 1>>, IncrementValue(mVoices[0].mPhaseIncrement)), mVoices[0].mPhase)
  /\ PolyBLEP(mVoices[0].mPhase, IncrementValue(mVoices[0].mPhaseIncrement)) # <<0, 1>>
  /\ GenerateWaveform("kSquare", mVoices[0].mPhase,
                      IncrementValue(mVoices[0].mPhaseIncrement)) # <<-1, 1>>

---------------------------------------------------------------------------
(* The sustain stage, checked under LiveSpec *)

\* Voice v holds its sustain level: stage sustain, the envelope value at
\* mSustainLevel, busy.
Sustained(v) ==
  /\ Stage(v) = "kSustain"
  /\ mVoices[v].mEnvelope.mEnvelopeValue = mVoices[v].mEnvelope.mSustainLevel
  /\ GetBusy(mVoices[v])

\* The step is a note-off, or a note-on of velocity 0, of the note of voice v.
NoteOffTargets(v) ==
  /\ IsNoteOff(last') \/ IsVelocityZero(last')
  /\ last'.note = mVoices[v].mNote

\* Over one step a voice in sustain stays as it is with every field of the
\* envelope kept, or the note-off of its note moves it to release.
SustainStep(v) ==
  Stage(v) = "kSustain" =>
    /\ Sustained(v)
    /\ \/ mVoices'[v].mEnvelope = mVoices[v].mEnvelope
       \/ /\ NoteOffTargets(v)
          /\ mVoices'[v].mEnvelope.mStage = "kRelease"

\* C31: a claimed voice that is not released reaches sustain once the host
\* only processes samples (the voices below min(voiceCount, kMaxVoices) are
\* the ones whose samples a block processes); a voice in sustain has its
\* envelope value at the sustain level and is busy, and every step leaves it
\* so except the note-off of its note.
C31_SustainHolds ==
  /\ \A v \in VoiceIdx :
       (drain.on /\ Stage(v) \in {"kAttack", "kDecay"} /\ InRange(v))
         ~> Sustained(v)
  /\ [][\A v \in VoiceIdx : SustainStep(v)]_vars

\* A voice that was in attack or decay when the last message had been
\* handled and that the blocks since have brought to its sustain level.
C31_Witness ==
  /\ drain.on
  /\ last.op = "ProcessBlock" /\ last.arg > 0
  /\ \E v \in VoiceIdx \ drain.rel :
       /\ InRange(v) /\ Sustained(v)
       /\ mVoices[v].mEnvelope.mSustainLevel = <<1, 2>>
       /\ mVoices[v].mNote = 60

---------------------------------------------------------------------------
(* The release stage, checked under EnvSpec *)

\* ceil(r) of a fraction r >= 0.
CeilQ(r) == IF r[1] % r[2] = 0 THEN r[1] \div r[2] ELSE (r[1] \div r[2]) + 1

\* The point of the straight line from mReleaseStart at sample 0 to 0 at
\* sample mReleaseSamples that the envelope e, in release, is at.
ReleaseRamp(e) ==
  IF RLt(<<0, 1>>, e.mReleaseSamples)
    THEN RSub(e.mReleaseStart,
              RMul(RInt(e.mSampleCount), RDiv(e.mReleaseStart, e.mReleaseSamples)))
    ELSE <<0, 1>>

\* One Process call takes the envelope e, in release, to f: the value is the
\* point of the line, or 0 with the stage idle when that point is at or below
\* 0.001; the stage is idle once ceil(mReleaseSamples) + 1 samples have been
\* processed since Release.
ReleaseSampleOK(e, f) ==
  /\ f.mSampleCount = e.mSampleCount + 1
  /\ f.mReleaseStart = e.mReleaseStart
  /\ IF RLe(ReleaseRamp(e), <<1, 1000>>)
       THEN f.mStage = "kIdle" /\ f.mEnvelopeValue = <<0, 1>>
       ELSE f.mStage = "kRelease" /\ f.mEnvelopeValue = ReleaseRamp(e)
  /\ f.mStage = "kRelease" => f.mSampleCount <= CeilQ(e.mReleaseSamples)
  /\ f.mSampleCount <= CeilQ(e.mReleaseSamples) + 1

\* The envelope of voice v over one step: a note-off or velocity-0 note-on
\* that releases it records the value as the release start and counts from
\* 0; a block runs the samples of a releasing voice one by one along the
\* line; nothing else touches a releasing envelope.
ReleaseStep(v) ==
  LET e == mVoices[v].mEnvelope
      f == mVoices'[v].mEnvelope
  IN  /\ (f.mStage = "kRelease" /\ last'.op # "ProcessBlock" /\ f # e) =>
           /\ IsNoteOff(last') \/ IsVelocityZero(last')
           /\ last'.note = mVoices[v].mNote
           /\ f = [e EXCEPT !.mStage = "kRelease", !.mSampleCount = 0,
                            !.mReleaseStart = e.mEnvelopeValue]
      /\ (e.mStage = "kRelease" /\ last'.op = "ProcessBlock" /\ InRange(v)) =>
           /\ f = EnvRun(e, last'.arg)
           /\ \A i \in 0 .. (last'.arg - 1) :
                EnvRun(e, i).mStage = "kRelease" =>
                  ReleaseSampleOK(EnvRun(e, i), EnvRun(e, i + 1))
      /\ (e.mStage = "kRelease" /\ f # e) =>
           \/ last'.op = "ProcessBlock"
           \/ /\ IsNoteOff(last') \/ IsVelocityZero(last')
              /\ last'.note = mVoices[v].mNote

\* C32: Release records the current value as the release start; the value
\* then follows the straight line from it to 0 over mReleaseSamples, one
\* point per processed sample; the voice is idle at the first sample whose
\* point is at or below 0.001, at the latest the sample number
\* ceil(mReleaseSamples) + 1 after the note-off.
C32_ReleaseRamp == [][\A v \in VoiceIdx : ReleaseStep(v)]_vars

\* A release of 1.5 samples from the level 1/2 that took all of its
\* ceil(1.5) + 1 = 3 samples.
C32_Witness ==
  /\ last.op = "ProcessBlock"
  /\ Stage(0) = "kIdle"
  /\ mVoices[0].mEnvelope.mReleaseSamples = <<3, 2>>
  /\ mVoices[0].mEnvelope.mReleaseStart = <<1, 2>>
  /\ mVoices[0].mEnvelope.mSampleCount = 3

---------------------------------------------------------------------------
(* The sample-and-hold LFO, checked under HoldSpec *)

\* The values a draw can give: rand() / RAND_MAX * 2 - 1.
Draws == {RSub(RMul(Rat(r, kRandMax), <<2, 1>>), <<1, 1>>) : r \in RandStates}
DrawOf(state) == RSub(RMul(Rat(state, kRandMax), <<2, 1>>), <<1, 1>>)

\* The Process call finds the phase of the sample-and-hold LFO below the
\* phase the call before found.
ObservesWrap(lfo) == lfo.mWaveform = "kRandom" /\ RLt(lfo.mPhase, lfo.mPreviousPhase)

\* The held value of an LFO over one step, from lfo to next, where the
\* generator is in state rand when the LFO is processed.
HoldStep(lfo, next, rand) ==
  CASE last'.op = "ProcessBlock" ->
         /\ next.mPreviousPhase = lfo.mPhase
         /\ IF ObservesWrap(lfo)
              THEN next.mRandomValue = DrawOf(rand) /\ next.mRandomValue \in Draws
              ELSE next.mRandomValue = lfo.mRandomValue
    [] last'.op = "Reset" -> next.mRandomValue = <<0, 1>>
    [] OTHER -> next.mRandomValue = lfo.mRandomValue

\* The number of draws of a block.
WrapCount == (IF ObservesWrap(mLFO1) THEN 1 ELSE 0) + (IF ObservesWrap(mLFO2) THEN 1 ELSE 0)

\* C33: the held value of an LFO is drawn anew by exactly the Process calls
\* of the sample-and-hold waveform that find the phase lower than the call
\* before found it, one draw of the generator each; every other call and
\* every other operation leaves it, and Reset sets it to 0.
C33_HeldUntilWrap ==
  [][ /\ HoldStep(mLFO1, mLFO1', randState)
      /\ HoldStep(mLFO2, mLFO2',
                  IF ObservesWrap(mLFO1) THEN NextRand(randState) ELSE randState)
      /\ last'.op = "ProcessBlock" =>
           randState' = (randState + WrapCount) % (kRandMax + 1) ]_vars

\* LFO2, sample and hold, has wrapped and drawn a value other than 0, and
\* the call after, at phase 0 with the phase before at 1/2 now, has held it.
C33_Witness ==
  /\ last.op = "ProcessBlock"
  /\ probe.n = MaxBlocks + 1
  /\ mLFO2.mWaveform = "kRandom"
  /\ mLFO2.mRandomValue \in Draws \ {<<0, 1>>}
  /\ mLFO2.mPreviousPhase = <<1, 2>>
  /\ mLFO2.mPhase = <<0, 1>>
  /\ probe.src["kLFO2"] = mLFO2.mRandomValue

---------------------------------------------------------------------------
(* The voice filters, checked under VoiceFilterSpec *)

\* The voices a block processes: busy, below the active voice count.
Processed(v) == InRange(v) /\ GetBusy(mVoices[v])

\* The base resonance plus the accumulator the block computed, within [0, 1].
ClampedResonance ==
  LET sum == RAdd(mFilterResonance, probe'.mod["kFilterRes"])
  IN  IF RLt(sum, <<0, 1>>) THEN <<0, 1>>
      ELSE IF RLt(<<1, 1>>, sum) THEN <<1, 1>> ELSE sum

\* What a block leaves in the filter of a voice it processed.
FilterSet(v) ==
  /\ mVoices'[v].mFilter.mResonance = ClampedResonance
  /\ mVoices'[v].mFilter.mCutoff.hz = mFilterCutoff
  /\ mVoices'[v].mFilter.mCutoff.octaves =
       RMul(<<4, 1>>, probe'.mod["kFilterCutoff"])

\* C34: a block gives every voice it processes (busy, below the active voice
\* count) the same cutoff, the base moved by four octaves per unit of the
\* cutoff accumulator, and the same resonance, the base plus the resonance
\* accumulator limited to [0, 1].
C34_SameFilterSettings ==
  [][ last'.op = "ProcessBlock" =>
        /\ \A v \in VoiceIdx : Processed(v) => FilterSet(v)
        /\ \A v, w \in VoiceIdx :
             (Processed(v) /\ Processed(w)) => mVoices'[v].mFilter = mVoices'[w].mFilter
    ]_vars

\* Every voice is busy and below the voice count, the base resonance 1/2 and
\* the accumulator 3/4 have left the resonance 1 in every voice, and the
\* cutoff of every voice is the base 1000 Hz moved by 3/5 of an octave.
C34_Witness ==
  /\ last.op = "ProcessBlock"
  /\ mVoiceCount = kMaxVoices
  /\ mFilterResonance = <<1, 2>>
  /\ mFilterCutoff = 1000
  /\ probe.mod["kFilterRes"] = <<3, 4>>
  /\ \A v \in VoiceIdx :
       /\ GetBusy(mVoices[v])
       /\ mVoices[v].mFilter.mResonance = <<1, 1>>
       /\ mVoices[v].mFilter.mCutoff = CutoffOf(1000, <<3, 5>>, 1000)

---------------------------------------------------------------------------
(* The voice indices, checked under CountSpec *)

\* The indices of the voices a step has changed.
Touched == {v \in VoiceIdx : mVoices'[v] # mVoices[v]}

\* C35: whatever voice count SetVoiceCount has stored (above the size of the
\* pool, zero, negative), the loops of note-on, note-off and ProcessBlock
\* only reach indices of the pool, and a step changes no voice its loop
\* does not reach.
C35_IndicesInPool ==
  [][ /\ LoopIndices(mVoiceCount, 0) \subseteq VoiceIdx
      /\ BlockIndices(mVoiceCount) \subseteq VoiceIdx
      /\ last'.op \in {"kNoteOn", "kNoteOff"} =>
           /\ Touched \subseteq LoopIndices(mVoiceCount, 0)
           /\ last'.voice \in LoopIndices(mVoiceCount, 0) \cup {-1}
      /\ last'.op = "ProcessBlock" => Touched \subseteq BlockIndices(mVoiceCount)
    ]_vars

\* With a voice count above the size of the pool and every voice busy, a
\* note-on has gone through the whole pool and found no voice.
C35_Witness ==
  /\ mVoiceCount = kMaxVoices + 1
  /\ \A v \in VoiceIdx : GetBusy(mVoices[v])
  /\ last.op = "kNoteOn"
  /\ last.arg > 0
  /\ last.voice = -1

---------------------------------------------------------------------------
(* The delay write position, checked under CursorSpec *)

\* The output channels of a block (CelestialSynth.cpp:339).
OutputChannels == {0, 1}

\* The position c channels after w.
PositionAfter(w, c) == (w + c) % DelayBufferSize

\* A block has left every sample of buf but the one at w as it was.
OnlyWrittenAt(buf, next, w) == \A i \in DOMAIN buf : i # w => next[i] = buf[i]

\* The delay stage of a channel, where it ran, read at delaySamples before w.
ReadBefore(tap, w) == tap.ran => tap.readPos = (w - DelaySamples) % DelayBufferSize

\* C36: the write position is an index of the delay buffers in every state;
\* a block of any frame count, none included, moves it on by the number of
\* output channels, modulo the length of the buffers; all the frames of a
\* channel write the one sample at the channel's position and read at one
\* position before it.
C36_WritePosition ==
  [][ /\ mDelayWritePos \in DOMAIN mDelayBufferL
      /\ mDelayWritePos' \in DOMAIN mDelayBufferL'
      /\ last'.op = "ProcessBlock" =>
           /\ mDelayWritePos' = PositionAfter(mDelayWritePos, Cardinality(OutputChannels))
           /\ OnlyWrittenAt(mDelayBufferL, mDelayBufferL', PositionAfter(mDelayWritePos, 0))
           /\ OnlyWrittenAt(mDelayBufferR, mDelayBufferR', PositionAfter(mDelayWritePos, 1))
           /\ ReadBefore(probe'.L, PositionAfter(mDelayWritePos, 0))
           /\ ReadBefore(probe'.R, PositionAfter(mDelayWritePos, 1))
    ]_vars

\* Two blocks, the second of MaxFrames frames, have taken the position from
\* 0 over the end of the buffers: the left channel has written at 0 and then
\* at 2, nowhere else, and the right channel's last read was at 2.
C36_Witness ==
  /\ last.op = "ProcessBlock"
  /\ last.arg = MaxFrames
  /\ probe.n = 2
  /\ mDelayWritePos = 4 % DelayBufferSize
  /\ mDelayBufferL[0] # <<0, 1>>
  /\ mDelayBufferL[1] = <<0, 1>>
  /\ mDelayBufferL[2] # <<0, 1>>
  /\ probe.R.ran
  /\ probe.R.readPos = 2

---------------------------------------------------------------------------
(* The voice a note-on claims, checked under Spec *)

\* The filter and the oscillator of a voice as Trigger(level, false) leaves
\* them.
FreshlyReset(voice) == voice.mPhase = <<0, 1>> /\ voice.mFilter.mCleared

\* C37: a note-on (velocity above 0) changes no voice but the one it claims;
\* that voice was not busy before, so a busy voice is neither retriggered
\* nor given another note; and the claimed voice starts with its phase at 0
\* and its filter cleared, whatever it had played before.
C37_ClaimsOneFreeVoice ==
  [][ IsNoteOn(last') =>
        /\ Touched \subseteq {last'.voice}
        /\ \A v \in VoiceIdx : GetBusy(mVoices[v]) => mVoices'[v] = mVoices[v]
        /\ last'.voice # -1 =>
             /\ ~GetBusy(mVoices[last'.voice])
             /\ GetBusy(mVoices'[last'.voice])
             /\ FreshlyReset(mVoices'[last'.voice])
    ]_vars

\* Voice 1 has just been claimed for note 64 while voice 0, released and
\* with samples through its filter, still sounds note 60.
C37_Witness ==
  /\ IsNoteOn(last)
  /\ last.voice = 1
  /\ last.note = 64
  /\ mVoices[1].mNote = 64
  /\ FreshlyReset(mVoices[1])
  /\ mVoices[0].mNote = 60
  /\ mVoices[0].mEnvelope.mStage = "kRelease"
  /\ ~mVoices[0].mFilter.mCleared

---------------------------------------------------------------------------
(* The range of the envelope, checked under EdgeSpec *)

\* 0 <= x <= 1.
InUnit(x) == RLe(<<0, 1>>, x) /\ RLe(x, <<1, 1>>)

\* The voice's envelope got its lengths and its level from parameters
\* within the claim's condition.
WithinCondition(e) ==
  /\ InUnit(e.mSustainLevel)
  /\ RLe(<<0, 1>>, e.mAttackSamples)
  /\ RLe(<<0, 1>>, e.mDecaySamples)
  /\ RLe(<<0, 1>>, e.mReleaseSamples)

\* What each of the Process calls of a block of n frames returns.
Returned(e, n) == {EnvRun(e, k).mEnvelopeValue : k \in 1 .. n}

\* C38: with a sustain level in [0, 1] and attack, decay and release lengths
\* of 0 or more, every value Process returns, sample by sample within a
\* block, and the value held between the calls, lies in [0, 1], however
\* note-ons, note-offs and blocks follow each other.
C38_EnvelopeInUnit ==
  [][ \A v \in VoiceIdx :
        WithinCondition(mVoices[v].mEnvelope) =>
          /\ InUnit(mVoices[v].mEnvelope.mEnvelopeValue)
          /\ InUnit(mVoices'[v].mEnvelope.mEnvelopeValue)
          /\ (last'.op = "ProcessBlock" /\ Processed(v)) =>
               \A x \in Returned(mVoices[v].mEnvelope, last'.arg) : InUnit(x)
    ]_vars

\* A decay of 2.5 samples toward the sustain level 0 has returned 1/5 in
\* its last sample, after a block of MaxFrames frames.
C38_Witness ==
  /\ last.op = "ProcessBlock"
  /\ last.arg = MaxFrames
  /\ mVoices[0].mEnvelope.mStage = "kDecay"
  /\ mVoices[0].mEnvelope.mDecaySamples = <<5, 2>>
  /\ mVoices[0].mEnvelope.mSustainLevel = <<0, 1>>
  /\ mVoices[0].mEnvelope.mSampleCount = 2
  /\ mVoices[0].mEnvelope.mEnvelopeValue = <<3, 5>>

---------------------------------------------------------------------------
(* The note released before its first sample, checked under EdgeSpec *)

\* The voice has been triggered and no sample of it has been processed.
Unprocessed(e) == e.mStage = "kAttack" /\ e.mSampleCount = 0

\* The voice is released with the release start at 0 and no sample of the
\* release processed.
ReleasedAtZero(e) ==
  e.mStage = "kRelease" /\ e.mReleaseStart = <<0, 1>> /\ e.mSampleCount = 0

\* Values the filter of a voice may hand to the product.
FilterOutputs == {<<-1, 1>>, <<0, 1>>, <<1, 2>>, <<1, 1>>}

\* Every sample of a block of n frames adds 0 to the output.
AddsNothing(voice, n) ==
  \A x \in Returned(voice.mEnvelope, n), filtered \in FilterOutputs :
     /\ x = <<0, 1>>
     /\ VoiceSample(filtered, x, voice.mVoiceGain) = <<0, 1>>

\* C39: a note-off (or velocity-0 note-on) of the note of a voice that has
\* processed no sample since its note-on takes the voice from attack to
\* release with the release start 0; the voice stays so until a block with
\* frames processes it, and that block's first sample takes it to idle:
\* every sample of the block returns the envelope value 0 and adds 0 to the
\* output.
C39_ImmediateRelease ==
  [][ \A v \in VoiceIdx :
        LET e == mVoices[v].mEnvelope
            next == mVoices'[v].mEnvelope
        IN  /\ ( /\ Unprocessed(e)
                 /\ InRange(v)
                 /\ last'.op \in {"kNoteOn", "kNoteOff"}
                 /\ last'.voice = -1
                 /\ IsNoteOn(last') = FALSE
                 /\ last'.note = mVoices[v].mNote )
               => ReleasedAtZero(next)
            /\ ReleasedAtZero(e) =>
                 IF last'.op = "ProcessBlock" /\ last'.arg > 0 /\ Processed(v)
                   THEN /\ next.mStage = "kIdle"
                        /\ next.mEnvelopeValue = <<0, 1>>
                        /\ EnvProcess(e).mStage = "kIdle"
                        /\ AddsNothing(mVoices[v], last'.arg)
                   ELSE ReleasedAtZero(next)
    ]_vars

\* The voice, with an attack of half a sample and the sustain level 1/2, is
\* idle after the one sample it has processed since its note-on: released
\* from 0.
C39_Witness ==
  /\ last.op = "ProcessBlock"
  /\ last.arg > 0
  /\ mVoices[0].mNote = 60
  /\ mVoices[0].mEnvelope.mStage = "kIdle"
  /\ mVoices[0].mEnvelope.mAttackSamples = <<1, 2>>
  /\ mVoices[0].mEnvelope.mSustainLevel = <<1, 2>>
  /\ mVoices[0].mEnvelope.mReleaseSamples = <<3, 2>>
  /\ mVoices[0].mEnvelope.mReleaseStart = <<0, 1>>
  /\ mVoices[0].mEnvelope.mSampleCount = 1
  /\ ~mVoices[0].mFilter.mCleared

---------------------------------------------------------------------------
(* The order of the frequencies, checked under ScaleSpec *)

\* a <= b for two positive doubles m * 2^e: the quotient of the two m
\* against the power of two between them.
FLe(a, b) ==
  LET q == RDiv(a.m, b.m)
      d == a.e - b.e
  IN  IF d >= 0 THEN q[1] * Pow2(d) <= q[2] ELSE q[1] <= q[2] * Pow2(-d)

\* The frequency of a note under the scale set.
FrequencyForNote(n) == GetFrequencyForMidiNote(mScale, n, kBaseFreq)

\* C40: under each of the 9 scales the frequency of a note does not fall as
\* the note number rises: the frequency a note-on has computed is at least
\* that of every note of 0..127 below it and at most that of every note
\* above it.
C40_FrequencyMonotone ==
  NoteOnClaimed(last) =>
    \A n \in MidiNotes :
       /\ n <= last.note => FLe(FrequencyForNote(n), Claimed.mFrequency.hz)
       /\ last.note <= n => FLe(Claimed.mFrequency.hz, FrequencyForNote(n))

\* Note 59 (B, snapped down to the degree of A) sounds at the frequency of
\* note 57 and below that of note 60, the C of the next octave up.
C40_Witness ==
  /\ NoteOnClaimed(last) /\ last.note = 59
  /\ Claimed.mFrequency.hz = FrequencyForNote(57)
  /\ ~FLe(FrequencyForNote(60), Claimed.mFrequency.hz)

===========================================================================
